---- MODULE Spec2Model ----
(***************************************************************************)
(* A model of guess-testing's search loop: Guesser.guess() driving the     *)
(* target under the Tracer, with its stop conditions, the suppression of   *)
(* exceptions, the per-run location sets and the missed-lines working copy *)
(* (src/guess_testing/guess.py, src/guess_testing/tracing.py).             *)
(*                                                                         *)
(* A "lines structure" (Dict[str, Set[int]]) is a function from the set of *)
(* its keys (file names) to sets of line numbers.  A location is a pair    *)
(* <<file, line>>.  Python objects that are shared by reference (the       *)
(* per-run dictionaries of Tracer.runs, which Guesser stores in            *)
(* __runs_with_results without copying) live in `heap` and are named by    *)
(* their address.                                                          *)
(***************************************************************************)
EXTENDS Integers, Sequences, FiniteSets, TLC

(* ------------------------------ bounds -------------------------------- *)

\* The most iterations of the loop the model follows within one guess().
MaxRuns == 2
\* The most guess() invocations on the one Guesser.
MaxGuesses == 2
\* The clock is followed for this many ticks after `start`.
MaxTime == 1

(* ----------------------------- constants ------------------------------ *)

FULL_COVERAGE == 1
TIMEOUT == 2
CALL_LIMIT == 4
EXCEPTION_RAISED == 8

\* stop_conditions & flag, on the bit mask.
HasFlag(stop_conditions, flag) == (stop_conditions \div flag) % 2 = 1

AllStopConditions == 0..15

(* -------------------------- values and types -------------------------- *)

\* Exception classes the target may raise; ZeroDivisionError is a subclass
\* of ArithmeticError, both are subclasses of Exception.
ExceptionTypes == {"ArithmeticError", "ZeroDivisionError"}

\* issubclass(sub, sup)
IsSubclass(sub, sup) ==
    \/ sub = sup
    \/ sub = "ZeroDivisionError" /\ sup = "ArithmeticError"

\* What a target that returns normally returns.
ReturnValues == {"value"}

\* A result stored for a run: a returned value or an exception instance
\* (named by its class).
Results == ReturnValues \cup ExceptionTypes

\* isinstance(result, Exception)
IsException(result) == result \in ExceptionTypes

\* The suppress_exceptions arguments guess() is called with.
SuppressChoices == {{}, {"ZeroDivisionError"}, {"ArithmeticError"}}

\* An except clause that would catch the listed classes only, not their
\* subclasses.
ExceptClauseCatches_exact(exception, suppress_exceptions) ==
    exception \in suppress_exceptions

\* `except suppress_exceptions as exception`: the clause catches an
\* exception that is an instance of one of the listed classes.
ExceptClauseCatches(exception, suppress_exceptions) ==
    \E cls \in suppress_exceptions : IsSubclass(exception, cls)

(* --------------------------- lines structures ------------------------- *)

EmptyLines == [k \in {} |-> {}]

\* The set of locations a lines structure holds.
Locations(lines) == UNION {{<<k, n>> : n \in lines[k]} : k \in DOMAIN lines}

\* Guesser.lines_length: sum(len(line) for line in lines.values())
RECURSIVE SumLengths(_, _)
SumLengths(lines, keys) ==
    IF keys = {} THEN 0
    ELSE LET k == CHOOSE x \in keys : TRUE
         IN  Cardinality(lines[k]) + SumLengths(lines, keys \ {k})

lines_length(lines) == SumLengths(lines, DOMAIN lines)

\* reduce_lines without the pop of the keys left empty.
reduce_lines_keeps_keys(to_reduce, reduce_by) ==
    [k \in DOMAIN to_reduce |->
        IF k \in DOMAIN reduce_by THEN to_reduce[k] \ reduce_by[k] ELSE to_reduce[k]]

\* reduce_lines popping every key the two structures share.
reduce_lines_pops_shared(to_reduce, reduce_by) ==
    [k \in DOMAIN to_reduce \ DOMAIN reduce_by |-> to_reduce[k]]

\* Guesser.reduce_lines: for every key of both, subtract, and pop the key
\* when nothing is left.  Keys of to_reduce alone are left as they are.
reduce_lines(to_reduce, reduce_by) ==
    LET common == DOMAIN to_reduce \cap DOMAIN reduce_by
        left(k) == IF k \in common THEN to_reduce[k] \ reduce_by[k] ELSE to_reduce[k]
        kept == {k \in DOMAIN to_reduce : k \notin common \/ left(k) # {}}
    IN  [k \in kept |-> left(k)]

\* Guesser.equalize_lines: pop the keys equalize_by lacks, intersect the
\* others, and pop the key when nothing is left.
equalize_lines(to_equalize, equalize_by) ==
    LET kept == {k \in DOMAIN to_equalize :
                    k \in DOMAIN equalize_by /\ to_equalize[k] \cap equalize_by[k] # {}}
    IN  [k \in kept |-> to_equalize[k] \cap equalize_by[k]]

(* ------------------------------ the scope ----------------------------- *)

\* What Tracer.get_func_scope returns for the functions of the programs
\* under test: the path of the function's file, its lines (the first line
\* is the line of its `def`) and its opcode offsets, pairs <<line, offset>>
\* with <<first, -1>> for the call itself.
FuncScope(func) ==
    CASE func = "f"  -> [path |-> "a.py", first |-> 1, lines |-> {1, 2},
                         opcode_offsets |-> {<<1, -1>>, <<1, 0>>, <<2, 2>>, <<2, 4>>}]
      [] func = "f1" -> [path |-> "a.py", first |-> 1, lines |-> {1},
                         opcode_offsets |-> {<<1, -1>>, <<1, 0>>, <<1, 2>>}]
      [] func = "g"  -> [path |-> "b.py", first |-> 1, lines |-> {1},
                         opcode_offsets |-> {<<1, -1>>, <<1, 0>>, <<1, 2>>}]
      [] func = "h"  -> [path |-> "c.py", first |-> 1, lines |-> {1, 2, 3, 4, 5},
                         opcode_offsets |-> {<<1, -1>>, <<1, 0>>, <<2, 2>>, <<3, 4>>,
                                             <<4, 6>>, <<5, 8>>}]

\* Tracer.__init__: scope[path].update(opcode_offsets if trace_opcodes else
\* lines) for every func.
ScopeOf(funcs, opcodes) ==
    LET paths == {FuncScope(funcs[i]).path : i \in DOMAIN funcs}
    IN  [p \in paths |->
            UNION {IF opcodes THEN FuncScope(funcs[i]).opcode_offsets
                   ELSE FuncScope(funcs[i]).lines :
                      i \in {j \in DOMAIN funcs : FuncScope(funcs[j]).path = p}}]

\* The scope of a Tracer that traces lines (trace_opcodes left False).
TracerScope(funcs) == ScopeOf(funcs, FALSE)

\* A line of a.py outside every function of the scope: code of the same
\* file that is not under test (a helper, or a generator class written
\* next to the target).
OtherLine == <<"a.py", 3>>

\* The programs under test: the funcs the Guesser is built with, what
\* executing the argument generators shows to the trace function (the
\* library's generators live in files outside the scope and show nothing, a
\* generator written in the target's file shows its lines), and the trace
\* hook installed in the process ("none" or a debugger's).
Programs ==
    {[funcs |-> <<"f">>, generator_lines |-> {}, trace_hook |-> "none"],
     [funcs |-> <<"f1", "g">>, generator_lines |-> {OtherLine}, trace_hook |-> "debugger"]}

(* ------------------------------ the state ----------------------------- *)

VARIABLES
    funcs,               \* Tracer.funcs, the scope's functions (fixed at construction)
    scope,               \* Tracer.scope, computed at construction and never assigned again
    generator_lines,     \* the traced locations one argument generation executes
    trace_hook,          \* the process-wide trace function, sys.gettrace()
    original_trace,      \* Tracer.__original_trace
    heap,                \* address -> lines structure: the per-run dicts of Tracer.runs
    tracer_runs,         \* Tracer.runs: run id -> address
    run_id,              \* Tracer.run_id
    run_arguments,       \* Guesser.__run_arguments
    runs_with_results,   \* Guesser.__runs_with_results: run id -> [lines: address, result]
    status,              \* "idle" (constructed), "running", "returned", "raised"
    stop_conditions,     \* the arguments and locals of the current guess()
    call_limit,
    timeout,
    suppress_exceptions,
    call_count,
    missed_lines,
    execution_time,      \* (now - start) as the next loop test reads it
    guess_no,            \* history: how many guess() invocations were started
    calls,               \* history: the target invocations of the current guess()
    last_raise,          \* history: what the last target invocation raised, or "none"
    hook_before,         \* history: the trace hook installed when guess() began
    enters,              \* history: Tracer.__enter__ calls of the current guess()
    exits,               \* history: Tracer.__exit__ calls of the current guess()
    trace_opcodes,       \* Tracer.__trace_opcodes
    tracebacks,          \* run id -> the frames of the stored exception's __traceback__
    parameters_generators, \* Guesser.__parameters_generators
    invocation,          \* the outcome of preparing the arguments and calling funcs[0]
    annotation,          \* new_get_generator: the specification to resolve
    depth_limit,         \* new_get_generator: its limit parameter
    generators_,         \* new_get_generator: the shuffled candidate kinds
    found,               \* new_get_generator: its local `found`
    tried,               \* history: the candidates the loop of new_get_generator went through
    inheritances,        \* Generator.get_inheritances(): the generator classes defined
    resolving,           \* new_get_generator: "idle", "looping", "returned", "raised"
    any_call,            \* AnyGenerator.generate_generator: the arguments of the call
    built_generator,     \* the generator built: a tree of kinds, or a kind and its bounds
    produced             \* what calling the generator gave

vars == <<funcs, scope, generator_lines, trace_hook, original_trace, heap, tracer_runs, run_id,
          run_arguments, runs_with_results, status, stop_conditions, call_limit, timeout,
          suppress_exceptions, call_count, missed_lines, execution_time, guess_no, calls,
          last_raise, hook_before, enters, exits, trace_opcodes, tracebacks,
          parameters_generators, invocation, annotation, depth_limit, generators_, found,
          tried, inheritances, resolving, any_call, built_generator, produced>>

\* The state of a call of TypingGeneratorFactory.new_get_generator.
resolver_vars ==
    <<annotation, depth_limit, generators_, found, tried, inheritances, resolving>>

\* The generators built and called on their own, outside a Guesser.
generation_vars == <<any_call, built_generator, produced>>

\* What guess() neither reads nor writes in the model of the search loop:
\* the tracing granularity and the tracebacks (followed where the exception
\* summary is checked), the parameters generators (followed where the
\* preparation of the arguments is checked) and the state of the resolver.
aside ==
    <<trace_opcodes, tracebacks, parameters_generators, invocation, resolver_vars,
      generation_vars>>

\* The first line of the entry function funcs[0].
EntryLocation == <<FuncScope(funcs[1]).path, FuncScope(funcs[1]).first>>

\* The location sets one invocation of the target can execute inside the
\* scope: the line of the entry's `def` (the trace function's "call" event)
\* and any of the other lines of the scope.
TargetPaths ==
    {{EntryLocation} \cup rest : rest \in SUBSET (Locations(scope) \ {EntryLocation})}

(* ------------------------------ the tracer ---------------------------- *)

\* The address of the dict that runs[id] creates: one per guess() and id.
NewAddress(id) == <<guess_no, id>>

\* Tracer.trace, once per executed location: a location of a file outside
\* the scope is dropped, any other is added to runs[run_id][filename]; both
\* defaultdicts create what is missing.  The result is the heap and runs.
Trace(h, runs, id, locations) ==
    LET seen == {l \in locations : l[1] \in DOMAIN scope}
        addr == IF id \in DOMAIN runs THEN runs[id] ELSE NewAddress(id)
        old == IF addr \in DOMAIN h THEN h[addr] ELSE EmptyLines
        files == DOMAIN old \cup {l[1] : l \in seen}
        new == [f \in files |->
                   (IF f \in DOMAIN old THEN old[f] ELSE {}) \cup
                   {l[2] : l \in {x \in seen : x[1] = f}}]
    IN  IF seen = {} THEN [heap |-> h, runs |-> runs]
        ELSE [heap |-> [a \in DOMAIN h \cup {addr} |-> IF a = addr THEN new ELSE h[a]],
              runs |-> [i \in DOMAIN runs \cup {id} |-> IF i = id THEN addr ELSE runs[i]]]

\* self.__tracer.runs[call_count], read by guess(): the defaultdict creates
\* an empty dict for a run that traced nothing.
ReadRun(h, runs, id) ==
    LET addr == IF id \in DOMAIN runs THEN runs[id] ELSE NewAddress(id)
    IN  [heap |-> IF addr \in DOMAIN h THEN h
                  ELSE [a \in DOMAIN h \cup {addr} |-> IF a = addr THEN EmptyLines ELSE h[a]],
         runs |-> [i \in DOMAIN runs \cup {id} |-> IF i = id THEN addr ELSE runs[i]],
         address |-> addr]

\* Tracer.__enter__: run_id = 0, runs = a new dict, the hook in place is
\* remembered and the tracer's installed.
TracerEnter ==
    /\ run_id' = 0
    /\ tracer_runs' = <<>>
    /\ original_trace' = trace_hook
    /\ trace_hook' = "tracer"
    /\ enters' = 1
    /\ exits' = 0

\* An __exit__ that would uninstall every hook: settrace(None).
TracerExit_uninstalls ==
    /\ trace_hook' = "none"
    /\ exits' = exits + 1
    /\ UNCHANGED <<original_trace, enters>>

\* Tracer.__exit__: settrace(self.__original_trace)
TracerExit ==
    /\ trace_hook' = original_trace
    /\ exits' = exits + 1
    /\ UNCHANGED <<original_trace, enters>>

(* --------------------------- the search loop -------------------------- *)

\* check_stop_conditions with the call limit compared by > instead of >=.
check_stop_conditions_late(sc, count, limit, time, tmo, missed) ==
    IF HasFlag(sc, CALL_LIMIT) /\ count > limit THEN TRUE
    ELSE IF HasFlag(sc, TIMEOUT) /\ time >= tmo THEN TRUE
    ELSE IF /\ HasFlag(sc, EXCEPTION_RAISED)
            /\ 0 < count
            /\ count <= Cardinality(DOMAIN runs_with_results)
            /\ IsException(runs_with_results[count - 1].result) THEN TRUE
    ELSE IF HasFlag(sc, FULL_COVERAGE) /\ Cardinality(DOMAIN missed) = 0 THEN TRUE
    ELSE FALSE

\* check_stop_conditions with the call limit tested whatever the flags are.
check_stop_conditions_unmasked(sc, count, limit, time, tmo, missed) ==
    IF count >= limit THEN TRUE
    ELSE IF HasFlag(sc, TIMEOUT) /\ time >= tmo THEN TRUE
    ELSE IF /\ HasFlag(sc, EXCEPTION_RAISED)
            /\ 0 < count
            /\ count <= Cardinality(DOMAIN runs_with_results)
            /\ IsException(runs_with_results[count - 1].result) THEN TRUE
    ELSE IF HasFlag(sc, FULL_COVERAGE) /\ Cardinality(DOMAIN missed) = 0 THEN TRUE
    ELSE FALSE

\* check_stop_conditions without the test of the last run's result.
check_stop_conditions_no_exception(sc, count, limit, time, tmo, missed) ==
    IF HasFlag(sc, CALL_LIMIT) /\ count >= limit THEN TRUE
    ELSE IF HasFlag(sc, TIMEOUT) /\ time >= tmo THEN TRUE
    ELSE IF HasFlag(sc, FULL_COVERAGE) /\ Cardinality(DOMAIN missed) = 0 THEN TRUE
    ELSE FALSE

\* Guesser.check_stop_conditions
check_stop_conditions(sc, count, limit, time, tmo, missed) ==
    IF HasFlag(sc, CALL_LIMIT) /\ count >= limit THEN TRUE
    ELSE IF HasFlag(sc, TIMEOUT) /\ time >= tmo THEN TRUE
    ELSE IF /\ HasFlag(sc, EXCEPTION_RAISED)
            /\ 0 < count
            /\ count <= Cardinality(DOMAIN runs_with_results)
            /\ IsException(runs_with_results[count - 1].result) THEN TRUE
    ELSE IF HasFlag(sc, FULL_COVERAGE) /\ Cardinality(DOMAIN missed) = 0 THEN TRUE
    ELSE FALSE

\* The loop test of guess(), on the current state.
StopNow ==
    check_stop_conditions(stop_conditions, call_count, call_limit, execution_time,
                          timeout, missed_lines)

\* What the clock may read at the next loop test.
ClockReadings(time) == {t \in 0..MaxTime : time <= t /\ t <= time + 1}

\* The arguments generated for one call, a fresh value per generation.
NewArguments == <<guess_no, call_count>>

\* The heap without the objects nothing refers to any more: the per-run
\* dicts that neither Tracer.runs nor __runs_with_results holds.
Collect(h, runs, results) ==
    LET referenced == {runs[i] : i \in DOMAIN runs} \cup
                      {results[i].lines : i \in DOMAIN results}
    IN  [a \in DOMAIN h \cap referenced |-> h[a]]

\* guess() up to the loop: the run arguments are reset, the missed lines are
\* a copy of the scope, the tracer is entered and the clock started.
GuessBegin(sc, limit, tmo, suppress) ==
    /\ status = "idle"
    /\ guess_no < MaxGuesses
    /\ guess_no' = guess_no + 1
    /\ stop_conditions' = sc
    /\ call_limit' = limit
    /\ timeout' = tmo
    /\ suppress_exceptions' = suppress
    /\ run_arguments' = <<>>
    /\ call_count' = 0
    /\ missed_lines' = scope
    /\ hook_before' = trace_hook
    /\ TracerEnter
    /\ heap' = Collect(heap, <<>>, runs_with_results)
    /\ execution_time' \in ClockReadings(0)
    /\ status' = "running"
    /\ calls' = <<>>
    /\ last_raise' = "none"
    /\ UNCHANGED <<funcs, scope, generator_lines, runs_with_results>>

\* The loop ends: a stop condition is met, the with block is left and
\* guess() returns.
GuessEnd ==
    /\ status = "running"
    /\ StopNow
    /\ TracerExit
    /\ status' = "returned"
    /\ UNCHANGED <<funcs, scope, generator_lines, heap, tracer_runs, run_id, run_arguments,
                   runs_with_results, stop_conditions, call_limit, timeout,
                   suppress_exceptions, call_count, missed_lines, execution_time,
                   guess_no, calls, last_raise, hook_before>>
    /\ UNCHANGED aside

\* One iteration whose target call ends with `result`: the arguments are
\* generated (traced under the run id still in place), run_id is set, the
\* arguments are appended, the target executes `visited`, the run is stored
\* with the tracer's dict for it and the missed lines are reduced by it.
RunRecorded(visited, result, raised) ==
    LET generated == Trace(heap, tracer_runs, run_id, generator_lines)
        called == Trace(generated.heap, generated.runs, call_count, visited)
        read == ReadRun(called.heap, called.runs, call_count)
    IN  /\ run_id' = call_count
        /\ run_arguments' = Append(run_arguments, NewArguments)
        /\ tracer_runs' = read.runs
        /\ runs_with_results' =
               [i \in DOMAIN runs_with_results \cup {call_count} |->
                   IF i = call_count THEN [lines |-> read.address, result |-> result]
                   ELSE runs_with_results[i]]
        /\ heap' = Collect(read.heap, read.runs, runs_with_results')
        /\ missed_lines' = reduce_lines(missed_lines, read.heap[read.address])
        /\ call_count' = call_count + 1
        /\ calls' = Append(calls, [args |-> NewArguments, run_id |-> call_count,
                                   executed |-> visited, result |-> result])
        /\ last_raise' = raised
        /\ execution_time' \in ClockReadings(execution_time)
        /\ UNCHANGED <<funcs, scope, generator_lines, trace_hook, original_trace, status,
                       stop_conditions, call_limit, timeout, suppress_exceptions,
                       guess_no, hook_before, enters, exits>>

\* The loop goes round once more.
LoopContinues ==
    /\ status = "running"
    /\ ~StopNow
    /\ call_count < MaxRuns

\* The target returns: a value, or an exception instance it built.
RunReturns ==
    /\ LoopContinues
    /\ \E visited \in TargetPaths, result \in Results :
           RunRecorded(visited, result, "none")
    /\ UNCHANGED aside

\* The target raises an exception the except clause catches.
RunSuppressed ==
    /\ LoopContinues
    /\ \E visited \in TargetPaths, exception \in ExceptionTypes :
           /\ ExceptClauseCatches(exception, suppress_exceptions)
           /\ RunRecorded(visited, exception, exception)
    /\ UNCHANGED aside

\* The target raises an exception the except clause does not catch: it
\* leaves the with block (Tracer.__exit__) and guess().
RunPropagates ==
    /\ LoopContinues
    /\ \E visited \in TargetPaths, exception \in ExceptionTypes :
           LET generated == Trace(heap, tracer_runs, run_id, generator_lines)
               called == Trace(generated.heap, generated.runs, call_count, visited)
           IN  /\ ~ExceptClauseCatches(exception, suppress_exceptions)
               /\ run_id' = call_count
               /\ run_arguments' = Append(run_arguments, NewArguments)
               /\ heap' = called.heap
               /\ tracer_runs' = called.runs
               /\ calls' = Append(calls, [args |-> NewArguments, run_id |-> call_count,
                                          executed |-> visited, result |-> "propagated"])
               /\ last_raise' = exception
    /\ TracerExit
    /\ status' = "raised"
    /\ UNCHANGED <<funcs, scope, generator_lines, runs_with_results, stop_conditions, call_limit,
                   timeout, suppress_exceptions, call_count, missed_lines, execution_time,
                   guess_no, hook_before>>
    /\ UNCHANGED aside

\* Generating the arguments raises (outside the try): the exception leaves
\* the with block and guess() before run_id is set.
ArgumentsRaise ==
    /\ LoopContinues
    /\ LET generated == Trace(heap, tracer_runs, run_id, generator_lines)
       IN  /\ heap' = generated.heap
           /\ tracer_runs' = generated.runs
    /\ TracerExit
    /\ status' = "raised"
    /\ last_raise' = "none"
    /\ UNCHANGED <<funcs, scope, generator_lines, run_id, run_arguments, runs_with_results,
                   stop_conditions, call_limit, timeout, suppress_exceptions, call_count,
                   missed_lines, execution_time, guess_no, calls, hook_before>>
    /\ UNCHANGED aside

\* The generator kinds of the registry (Generator.get_inheritances()) the
\* resolver is followed on: two final kinds, of which bool is a subclass of
\* int, and three kinds that require sub-generators.
Registry == {"IntGenerator", "BoolGenerator", "ListGenerator", "SetGenerator", "DictGenerator"}

\* No call of new_get_generator was made, and the generator classes defined
\* are those of Registry.
NotResolving ==
    /\ annotation = [is |-> "none"]
    /\ depth_limit = 0
    /\ generators_ = <<>>
    /\ found = [is |-> "none"]
    /\ tried = <<>>
    /\ inheritances = Registry
    /\ resolving = "idle"

\* No generator was built or called on its own.
NotGenerating ==
    /\ any_call = [is |-> "none"]
    /\ built_generator = [is |-> "none"]
    /\ produced = [is |-> "none"]

\* A Guesser whose tracer records lines, before any exception was stored,
\* with nothing said of its parameters generators and no resolution made.
NothingAside ==
    /\ trace_opcodes = FALSE
    /\ tracebacks = <<>>
    /\ parameters_generators = [is |-> "unspecified"]
    /\ invocation = [is |-> "none"]
    /\ NotResolving
    /\ NotGenerating

\* Guesser.__init__ and Tracer.__init__, for each program under test.
Init ==
    /\ \E program \in Programs :
           /\ funcs = program.funcs
           /\ scope = TracerScope(program.funcs)
           /\ generator_lines = program.generator_lines
           /\ trace_hook = program.trace_hook
    /\ original_trace = "none"
    /\ heap = <<>>
    /\ tracer_runs = <<>>
    /\ run_id = 0
    /\ run_arguments = <<>>
    /\ runs_with_results = <<>>
    /\ status = "idle"
    /\ stop_conditions = 0
    /\ call_limit = 0
    /\ timeout = 0
    /\ suppress_exceptions = {}
    /\ call_count = 0
    /\ missed_lines = EmptyLines
    /\ execution_time = 0
    /\ guess_no = 0
    /\ calls = <<>>
    /\ last_raise = "none"
    /\ hook_before = trace_hook
    /\ enters = 0
    /\ exits = 0
    /\ NothingAside

\* The first guess() on the Guesser, with every combination of stop
\* conditions, call limit and suppressed exceptions; the timeout is MaxTime
\* ticks, one the clock of the model can reach.
Guess ==
    /\ guess_no = 0
    /\ \E sc \in AllStopConditions, limit \in 0..MaxRuns, suppress \in SuppressChoices :
           GuessBegin(sc, limit, MaxTime, suppress)
    /\ UNCHANGED aside

\* The stop conditions of the later calls: the call limit alone, with the
\* exception flag, the default of guess() (full coverage, timeout and call
\* limit), and all four.
ReentryConditions ==
    {CALL_LIMIT, CALL_LIMIT + EXCEPTION_RAISED,
     FULL_COVERAGE + TIMEOUT + CALL_LIMIT,
     FULL_COVERAGE + TIMEOUT + CALL_LIMIT + EXCEPTION_RAISED}

\* guess() is called again on the same Guesser.
GuessAgain ==
    /\ guess_no > 0
    /\ \E sc \in ReentryConditions, limit \in 0..MaxRuns,
          suppress \in {{}, {"ArithmeticError"}} :
           GuessBegin(sc, limit, MaxTime, suppress)
    /\ UNCHANGED aside

\* guess() has returned or raised and its frame is gone: what is left is the
\* Guesser, the Tracer and the trace hook.
CallerResumes ==
    /\ status \in {"returned", "raised"}
    /\ status' = "idle"
    /\ stop_conditions' = 0
    /\ call_limit' = 0
    /\ timeout' = 0
    /\ suppress_exceptions' = {}
    /\ call_count' = 0
    /\ missed_lines' = EmptyLines
    /\ execution_time' = 0
    /\ calls' = <<>>
    /\ last_raise' = "none"
    /\ hook_before' = trace_hook
    /\ enters' = 0
    /\ exits' = 0
    /\ UNCHANGED <<funcs, scope, generator_lines, trace_hook, original_trace, heap, tracer_runs,
                   run_id, run_arguments, runs_with_results, guess_no>>
    /\ UNCHANGED aside

Next ==
    \/ Guess
    \/ GuessAgain
    \/ CallerResumes
    \/ GuessEnd
    \/ RunReturns
    \/ RunSuppressed
    \/ RunPropagates
    \/ ArgumentsRaise

Spec == Init /\ [][Next]_vars

(* ------------------------------ the queries --------------------------- *)

\* The lines structure stored for run i: __runs_with_results[i][0].
RunLines(i) == heap[runs_with_results[i].lines]

\* A max() that keeps the last of the keys of the largest length.
MostCover_last(subsets) ==
    CHOOSE r \in DOMAIN subsets :
        \A q \in DOMAIN subsets :
            \/ lines_length(subsets[q]) < lines_length(subsets[r])
            \/ lines_length(subsets[q]) = lines_length(subsets[r]) /\ r >= q

\* max(subsets, key=...): the first key of the largest length in the dict's
\* order.  The keys of __runs_with_results are inserted in increasing order
\* (guess() writes 0, 1, 2, ... and a key written again keeps its place).
MostCover(subsets) ==
    CHOOSE r \in DOMAIN subsets :
        \A q \in DOMAIN subsets :
            \/ lines_length(subsets[q]) < lines_length(subsets[r])
            \/ lines_length(subsets[q]) = lines_length(subsets[r]) /\ r <= q

\* A loop that drops the subsets left empty only at the next round, after
\* the pick.
RECURSIVE BestCoverLoop_filters_late(_, _, _)
BestCoverLoop_filters_late(cases, remaining, subsets) ==
    IF DOMAIN remaining = {} THEN [cases |-> cases, remaining |-> remaining, steps |-> <<>>]
    ELSE LET nonempty == {r \in DOMAIN subsets : Cardinality(DOMAIN subsets[r]) > 0}
             left == [r \in nonempty |-> equalize_lines(subsets[r], remaining)]
         IN  IF nonempty = {}
             THEN [cases |-> cases, remaining |-> remaining, steps |-> <<>>]
             ELSE LET most_cover == MostCover(left)
                      reduced == reduce_lines(remaining, left[most_cover])
                      rest == BestCoverLoop_filters_late(cases \cup {most_cover}, reduced, left)
                  IN  [cases |-> rest.cases, remaining |-> rest.remaining,
                       steps |-> <<[most_cover |-> most_cover, scope |-> reduced]>>
                                 \o rest.steps]

\* The loop of Guesser.get_best_cover.  `steps` is its history: the run
\* picked at each round and the working copy of the scope after the round.
RECURSIVE BestCoverLoop(_, _, _)
BestCoverLoop(cases, remaining, subsets) ==
    IF DOMAIN remaining = {} THEN [cases |-> cases, remaining |-> remaining, steps |-> <<>>]
    ELSE LET equalized == [r \in DOMAIN subsets |-> equalize_lines(subsets[r], remaining)]
             nonempty == {r \in DOMAIN equalized : Cardinality(DOMAIN equalized[r]) > 0}
             left == [r \in nonempty |-> equalized[r]]
         IN  IF nonempty = {}
             THEN [cases |-> cases, remaining |-> remaining, steps |-> <<>>]
             ELSE LET most_cover == MostCover(left)
                      reduced == reduce_lines(remaining, left[most_cover])
                      rest == BestCoverLoop(cases \cup {most_cover}, reduced, left)
                  IN  [cases |-> rest.cases, remaining |-> rest.remaining,
                       steps |-> <<[most_cover |-> most_cover, scope |-> reduced]>>
                                 \o rest.steps]

\* A get_best_cover that returns the tracer's scope, not the reduced copy.
get_best_cover_full_scope ==
    [cases |-> BestCoverLoop({}, scope,
                             [i \in DOMAIN runs_with_results |-> RunLines(i)]).cases,
     remaining |-> scope]

\* A get_best_cover that leaves the run stored last out of the subsets.
get_best_cover_skips_last ==
    BestCoverLoop({}, scope,
                  [i \in {j \in DOMAIN runs_with_results :
                              \E k \in DOMAIN runs_with_results : k > j} |-> RunLines(i)])

\* Guesser.get_best_cover
get_best_cover ==
    BestCoverLoop({}, scope, [i \in DOMAIN runs_with_results |-> RunLines(i)])

\* Guesser.attempts_number: run_id if run_id is None else run_id + 1.  The
\* tracer's run_id is an int from construction on (Tracer.__init__ and
\* __enter__ set it to 0), so the None branch is never taken.
attempts_number == run_id + 1

\* Guesser.coverage: None without stored runs; self.__run_arguments[case]
\* raises IndexError for a case the list does not reach.  `is` tells the
\* three outcomes apart; the percentage (a float computed from the two
\* counts) is left out.
coverage ==
    IF DOMAIN runs_with_results = {} THEN [is |-> "None"]
    ELSE LET best == get_best_cover
         IN  IF \E case \in best.cases : case >= Len(run_arguments)
             THEN [is |-> "IndexError"]
             ELSE [is |-> "dict",
                   scope |-> scope,
                   cases |-> {run_arguments[case + 1] : case \in best.cases},
                   lines_count |-> lines_length(scope),
                   covered_lines_count |-> lines_length(scope) - lines_length(best.remaining),
                   missed_lines_count |-> lines_length(best.remaining),
                   missed_lines |-> best.remaining]

\* The runs Guesser.exceptions groups.
exception_runs == {i \in DOMAIN runs_with_results : IsException(runs_with_results[i].result)}

\* The runs Guesser.return_values groups.
return_runs == {i \in DOMAIN runs_with_results : ~IsException(runs_with_results[i].result)}

(* ----------------------- the minimizer's test bed ---------------------- *)

\* The most runs of the guess() whose records the minimizer is checked on.
MaxCoverRuns == 3

\* The program the minimizer is checked on: one function of five lines, with
\* library generators and no other trace hook.
CoverProgram == [funcs |-> <<"h">>, generator_lines |-> {}, trace_hook |-> "none"]

\* A line of c.py in a function that line 2 of h calls and that is not one of
\* funcs: its file is a key of the scope, so Tracer.trace records it.
HelperLine == <<"c.py", 6>>

\* What one invocation of h can execute that the tracer records: its `def`
\* line with any other lines of h, or the path through the helper, on which
\* h returns what the helper returns.
CoveragePaths == TargetPaths \cup {{EntryLocation, <<"c.py", 2>>, HelperLine}}

\* Guesser(h), not yet used.
CoverInit ==
    /\ funcs = CoverProgram.funcs
    /\ scope = TracerScope(CoverProgram.funcs)
    /\ generator_lines = CoverProgram.generator_lines
    /\ trace_hook = CoverProgram.trace_hook
    /\ original_trace = "none"
    /\ heap = <<>>
    /\ tracer_runs = <<>>
    /\ run_id = 0
    /\ run_arguments = <<>>
    /\ runs_with_results = <<>>
    /\ status = "idle"
    /\ stop_conditions = 0
    /\ call_limit = 0
    /\ timeout = 0
    /\ suppress_exceptions = {}
    /\ call_count = 0
    /\ missed_lines = EmptyLines
    /\ execution_time = 0
    /\ guess_no = 0
    /\ calls = <<>>
    /\ last_raise = "none"
    /\ hook_before = trace_hook
    /\ enters = 0
    /\ exits = 0
    /\ NothingAside

\* guess(StopConditions.CALL_LIMIT, call_limit=n) for every n up to
\* MaxCoverRuns; the clock stays within its first tick.
CoverGuess ==
    /\ guess_no = 0
    /\ \E limit \in 1..MaxCoverRuns : GuessBegin(CALL_LIMIT, limit, MaxTime, {})
    /\ execution_time' = 0
    /\ UNCHANGED aside

\* One iteration of that guess(): h returns after executing `visited`.
CoverRun ==
    /\ status = "running"
    /\ ~StopNow
    /\ \E visited \in CoveragePaths : RunRecorded(visited, "value", "none")
    /\ execution_time' = execution_time
    /\ UNCHANGED aside

CoverNext ==
    \/ CoverGuess
    \/ CoverRun
    \/ GuessEnd

CoverSpec == CoverInit /\ [][CoverNext]_vars

(* ------------------------------ the summaries ------------------------- *)

\* A frame object: the file of its code and the line it stands at.
Frame(file, line) == [co_filename |-> file, f_lineno |-> line]

\* The frame of guess(), at the line of the call of funcs[0].
GuessFrame == Frame("guess.py", 187)

\* get_exception_location's answer when no frame is in the scope: None.
NoLocation == <<>>

\* frame.f_lineno in self.__tracer.scope[filename]: the scope of a tracer
\* that traces opcodes holds (line, offset) tuples, and an int is equal to
\* none of them.
LineInScope(file, line) == IF trace_opcodes THEN FALSE ELSE line \in scope[file]

\* Guesser.get_exception_location, on the frames of exception.__traceback__
\* from tb_frame along tb_next: `stack` holds them innermost first, and the
\* first of them in the scope gives the location.
get_exception_location(traceback) ==
    LET inside == {i \in DOMAIN traceback :
                      /\ traceback[i].co_filename \in DOMAIN scope
                      /\ LineInScope(traceback[i].co_filename, traceback[i].f_lineno)}
    IN  IF inside = {} THEN NoLocation
        ELSE LET first == CHOOSE i \in inside : \A j \in inside : j <= i
             IN  <<traceback[first].co_filename, traceback[first].f_lineno>>

\* The example a summary keeps for a key:
\* (self.__run_arguments[run_id], self.__runs_with_results[run_id][1]).
Example(id) == [arguments |-> run_arguments[id + 1], result |-> runs_with_results[id].result]

\* d[k] = v on a dict.
Put(d, k, v) == [x \in DOMAIN d \cup {k} |-> IF x = k THEN v ELSE d[x]]

\* The smallest of a set of run ids: the next key of a dict whose keys were
\* inserted in increasing order.
Earliest(ids) == CHOOSE i \in ids : \A j \in ids : i <= j

\* The loop of Guesser.exceptions over exception_runs.  An exception that was
\* never raised has no traceback (stack_trace.tb_frame on None raises
\* AttributeError); self.__run_arguments[run_id] raises IndexError for a run
\* id the list does not reach.  An exception leaves the property.
RECURSIVE ExceptionsLoop(_, _)
ExceptionsLoop(summary, ids) ==
    IF ids = {} \/ summary.is # "dict" THEN summary
    ELSE LET id == Earliest(ids)
             type == runs_with_results[id].result
         IN  IF tracebacks[id] = <<>> THEN [is |-> "AttributeError"]
             ELSE LET location == get_exception_location(tracebacks[id])
                      new_type == type \notin DOMAIN summary.by_type
                      new_location == location \notin DOMAIN summary.by_location
                      new_both == <<location, type>> \notin DOMAIN summary.by_location_and_type
                      file == location[1]
                  IN  IF (new_type \/ new_location \/ new_both) /\ id >= Len(run_arguments)
                      THEN [is |-> "IndexError"]
                      ELSE ExceptionsLoop(
                          [is |-> "dict",
                           by_type |-> IF new_type THEN Put(summary.by_type, type, Example(id))
                                       ELSE summary.by_type,
                           by_location |->
                               IF new_location
                               THEN Put(summary.by_location, location, Example(id))
                               ELSE summary.by_location,
                           locations |->
                               IF new_location /\ location # NoLocation
                               THEN Put(summary.locations, file,
                                        (IF file \in DOMAIN summary.locations
                                         THEN summary.locations[file] ELSE {})
                                        \cup {location[2]})
                               ELSE summary.locations,
                           by_location_and_type |->
                               IF new_both
                               THEN Put(summary.by_location_and_type, <<location, type>>,
                                        Example(id))
                               ELSE summary.by_location_and_type],
                          ids \ {id})

\* Guesser.exceptions: None without stored runs; `types` is the key set of
\* by_type.  `is` tells the outcomes apart.
exceptions ==
    IF DOMAIN runs_with_results = {} THEN [is |-> "None"]
    ELSE ExceptionsLoop([is |-> "dict", by_type |-> <<>>, by_location |-> <<>>,
                         locations |-> <<>>, by_location_and_type |-> <<>>],
                        exception_runs)

\* What a target that returns normally returns where the summaries are
\* checked: 1 and True (equal and of the same hash in Python, of types int
\* and bool), a str, and a list (which cannot be hashed).
SummaryValues == {"1", "True", "[]"} \cup ReturnValues

\* type(value)
PyType(value) ==
    CASE value = "1" -> "int"
      [] value = "True" -> "bool"
      [] value = "[]" -> "list"
      [] OTHER -> "str"

\* a == b
PyEquals(a, b) == a = b \/ {a, b} = {"1", "True"}

\* hash(value) raises TypeError
Unhashable(value) == value = "[]"

\* key in d, for a key that can be hashed.
KeyIn(key, d) == \E k \in DOMAIN d : PyEquals(k, key)

\* The loop of Guesser.return_values over return_runs.
RECURSIVE ReturnValuesLoop(_, _)
ReturnValuesLoop(summary, ids) ==
    IF ids = {} \/ summary.is # "dict" THEN summary
    ELSE LET id == Earliest(ids)
             value == runs_with_results[id].result
             type == PyType(value)
             new_type == type \notin DOMAIN summary.by_type
             new_value == ~KeyIn(value, summary.by_value)
             new_both == <<type, value>> \notin DOMAIN summary.by_type_and_value
             reached == id < Len(run_arguments)
         IN  IF new_type /\ ~reached THEN [is |-> "IndexError"]
             ELSE IF Unhashable(value) THEN [is |-> "TypeError"]
             ELSE IF (new_value \/ new_both) /\ ~reached THEN [is |-> "IndexError"]
             ELSE ReturnValuesLoop(
                      [is |-> "dict",
                       by_type |-> IF new_type THEN Put(summary.by_type, type, Example(id))
                                   ELSE summary.by_type,
                       by_value |-> IF new_value THEN Put(summary.by_value, value, Example(id))
                                    ELSE summary.by_value,
                       by_type_and_value |->
                           IF new_both
                           THEN Put(summary.by_type_and_value, <<type, value>>, Example(id))
                           ELSE summary.by_type_and_value],
                      ids \ {id})

\* Guesser.return_values: None without stored runs; `values` and `types`
\* are the key sets of by_value and by_type.
return_values ==
    IF DOMAIN runs_with_results = {} THEN [is |-> "None"]
    ELSE ReturnValuesLoop([is |-> "dict", by_type |-> <<>>, by_value |-> <<>>,
                           by_type_and_value |-> <<>>],
                          return_runs)

(* ----------------------- the summaries' test bed ----------------------- *)

\* The most runs of the guess() whose records the summaries are checked on.
MaxSummaryRuns == 2

\* The program the summaries are checked on: f1 of a.py, which calls g of
\* b.py or a helper of a.py that is not one of funcs; g may call into a
\* library.
SummaryProgram == [funcs |-> <<"f1", "g">>, generator_lines |-> {}, trace_hook |-> "none"]

\* The tracebacks of the exceptions the program raises: in f1 itself, in g,
\* in the library under g, in the helper under f1.
Tracebacks ==
    {<<GuessFrame, Frame("a.py", 1)>>,
     <<GuessFrame, Frame("a.py", 1), Frame("b.py", 1)>>,
     <<GuessFrame, Frame("a.py", 1), Frame("b.py", 1), Frame("lib.py", 9)>>,
     <<GuessFrame, Frame("a.py", 1), Frame("a.py", 3)>>}

\* What the tracer records of an invocation with these frames: the items of
\* the functions of the scope it went through, and the helper's (its file is
\* a key of the scope); nothing of guess.py or the library.
Executed(frames) ==
    LET items(func) == IF trace_opcodes THEN FuncScope(func).opcode_offsets
                       ELSE FuncScope(func).lines
        of(func) == {<<FuncScope(func).path, item>> : item \in items(func)}
        at(frame) ==
            CASE frame = Frame("a.py", 1) -> of("f1")
              [] frame = Frame("b.py", 1) -> of("g")
              [] frame = Frame("a.py", 3) -> {<<"a.py", IF trace_opcodes THEN <<3, 0>> ELSE 3>>}
              [] OTHER -> {}
    IN  UNION {at(frames[i]) : i \in DOMAIN frames}

\* How one invocation of f1 may end: it returns a value or an exception
\* instance it built and never raised (f1 alone ran; the instance has no
\* traceback), or it raises an exception with one of the tracebacks.
SummaryOutcomes ==
    {[frames |-> <<GuessFrame, Frame("a.py", 1)>>, result |-> result, raised |-> "none",
      traceback |-> <<>>] : result \in SummaryValues \cup ExceptionTypes}
    \cup {[frames |-> traceback, result |-> exception, raised |-> exception,
           traceback |-> traceback] : exception \in ExceptionTypes, traceback \in Tracebacks}

\* Guesser((f1, g), trace_opcodes=...), not yet used.
SummaryInit ==
    /\ funcs = SummaryProgram.funcs
    /\ trace_opcodes \in BOOLEAN
    /\ scope = ScopeOf(SummaryProgram.funcs, trace_opcodes)
    /\ generator_lines = SummaryProgram.generator_lines
    /\ trace_hook = SummaryProgram.trace_hook
    /\ original_trace = "none"
    /\ heap = <<>>
    /\ tracer_runs = <<>>
    /\ run_id = 0
    /\ run_arguments = <<>>
    /\ runs_with_results = <<>>
    /\ status = "idle"
    /\ stop_conditions = 0
    /\ call_limit = 0
    /\ timeout = 0
    /\ suppress_exceptions = {}
    /\ call_count = 0
    /\ missed_lines = EmptyLines
    /\ execution_time = 0
    /\ guess_no = 0
    /\ calls = <<>>
    /\ last_raise = "none"
    /\ hook_before = trace_hook
    /\ enters = 0
    /\ exits = 0
    /\ tracebacks = <<>>
    /\ parameters_generators = [is |-> "unspecified"]
    /\ invocation = [is |-> "none"]
    /\ NotResolving
    /\ NotGenerating

\* guess(StopConditions.CALL_LIMIT, call_limit=n,
\* suppress_exceptions=(ArithmeticError,)) for every n up to MaxSummaryRuns;
\* the clock stays within its first tick.
SummaryGuess ==
    /\ guess_no = 0
    /\ \E limit \in 1..MaxSummaryRuns :
           GuessBegin(CALL_LIMIT, limit, MaxTime, {"ArithmeticError"})
    /\ execution_time' = 0
    /\ UNCHANGED aside

\* One iteration of that guess(): the run is stored with its outcome, and an
\* exception instance carries its traceback.
SummaryRun ==
    /\ status = "running"
    /\ ~StopNow
    /\ \E outcome \in SummaryOutcomes :
           /\ outcome.raised # "none"
                  => ExceptClauseCatches(outcome.raised, suppress_exceptions)
           /\ RunRecorded(Executed(outcome.frames), outcome.result, outcome.raised)
           /\ tracebacks' = IF IsException(outcome.result)
                            THEN Put(tracebacks, call_count, outcome.traceback)
                            ELSE tracebacks
    /\ execution_time' = execution_time
    /\ UNCHANGED <<trace_opcodes, parameters_generators, invocation, resolver_vars,
                   generation_vars>>

SummaryNext ==
    \/ SummaryGuess
    \/ SummaryRun
    \/ GuessEnd

SummarySpec == SummaryInit /\ [][SummaryNext]_vars

(* ----------------------- the arguments of the call --------------------- *)

\* The most positional generators of a ParametersGenerators, and the most
\* elements its var_positional generator draws.
MaxPositional == 2
MaxVarPositional == 1

\* The sequences over S of at most n elements.
SeqsUpTo(S, n) == UNION {[1..k -> S] : k \in 0..n}

\* The generator objects given as positional generators.
PositionalGenerators == {"IntGenerator", "StringGenerator"}

\* The names of the keyword generators, and the key the var_keyword generator
\* draws (a name of no keyword generator).
KeywordNames == {"a", "b"}
VarKeywordKeys == {"c"}

\* The elements the var_positional generator draws: an int and a str.
VarPositionalValues == {"7", "xy"}

\* generator(): a value the generator made for this call.
Generated(generator) == [made_by |-> generator, run |-> call_count]

\* iter(x): the elements of an iterable (the characters of the str), or
\* TypeError for what is not one: an int, and a generator object, which
\* defines __call__ and neither __iter__ nor __getitem__.
Iterates(x) == x = "xy"
Elements(x) == <<"x", "y">>

\* The ParametersGenerators a Guesser may be given: positional generators,
\* a var_positional and a var_keyword generator of some max_length
\* (min_length 0), keyword generators by name.
AllParametersGenerators ==
    [is : {"given"},
     positional : SeqsUpTo(PositionalGenerators, MaxPositional),
     var_positional : [max_length : 0..MaxVarPositional],
     keyword : SUBSET KeywordNames,
     var_keyword : [max_length : 0..Cardinality(VarKeywordKeys)]]

\* tuple(*positional, *var_positional()) and dict(**var_keyword(), **{k: v()
\* for k, v in keyword.items()}), with what the two var generators drew:
\* the unpacked items are the positional generator objects themselves and
\* the drawn elements; tuple() takes at most one argument, an iterable.
PrepareArguments(generators, drawn_positional, drawn_keyword) ==
    LET items == generators.positional \o drawn_positional
        kwargs == [k \in generators.keyword \cup drawn_keyword |->
                      IF k \in generators.keyword THEN Generated(k)
                      ELSE Generated("var_keyword")]
    IN  IF Len(items) > 1 THEN [is |-> "TypeError"]
        ELSE IF Len(items) = 1 /\ ~Iterates(items[1]) THEN [is |-> "TypeError"]
        ELSE [is |-> "called",
              args |-> IF Len(items) = 1 THEN Elements(items[1]) ELSE <<>>,
              kwargs |-> kwargs]

\* What the var generators may draw for one call.
Draws(generators) ==
    [var_positional : SeqsUpTo(VarPositionalValues, generators.var_positional.max_length),
     var_keyword : {keys \in SUBSET VarKeywordKeys :
                       Cardinality(keys) <= generators.var_keyword.max_length}]

\* Guesser(f, parameters_generators=...), not yet used.
ArgumentsInit ==
    /\ funcs = <<"f">>
    /\ scope = TracerScope(<<"f">>)
    /\ generator_lines = {}
    /\ trace_hook = "none"
    /\ original_trace = "none"
    /\ heap = <<>>
    /\ tracer_runs = <<>>
    /\ run_id = 0
    /\ run_arguments = <<>>
    /\ runs_with_results = <<>>
    /\ status = "idle"
    /\ stop_conditions = 0
    /\ call_limit = 0
    /\ timeout = 0
    /\ suppress_exceptions = {}
    /\ call_count = 0
    /\ missed_lines = EmptyLines
    /\ execution_time = 0
    /\ guess_no = 0
    /\ calls = <<>>
    /\ last_raise = "none"
    /\ hook_before = trace_hook
    /\ enters = 0
    /\ exits = 0
    /\ trace_opcodes = FALSE
    /\ tracebacks = <<>>
    /\ parameters_generators \in AllParametersGenerators
    /\ invocation = [is |-> "none"]
    /\ NotResolving
    /\ NotGenerating

\* guess(StopConditions.CALL_LIMIT, call_limit=1,
\* suppress_exceptions=(Exception,)); the clock stays within its first tick.
ArgumentsGuess ==
    /\ guess_no = 0
    /\ GuessBegin(CALL_LIMIT, 1, MaxTime, {"ArithmeticError"})
    /\ execution_time' = 0
    /\ UNCHANGED aside

\* One iteration in which the arguments are prepared and f is called with
\* them; f takes what it is given (def f(*args, **kwargs)) and returns.
ArgumentsCall ==
    /\ status = "running"
    /\ ~StopNow
    /\ \E drawn \in Draws(parameters_generators) :
           LET prepared == PrepareArguments(parameters_generators, drawn.var_positional,
                                            drawn.var_keyword)
           IN  /\ prepared.is = "called"
               /\ invocation' = [is |-> "called", args |-> prepared.args,
                                 kwargs |-> prepared.kwargs, drawn |-> drawn]
    /\ \E visited \in TargetPaths : RunRecorded(visited, "value", "none")
    /\ execution_time' = execution_time
    /\ UNCHANGED <<trace_opcodes, tracebacks, parameters_generators, resolver_vars,
                   generation_vars>>

\* One iteration in which preparing the arguments raises TypeError: it is
\* raised outside the try, leaves the with block (Tracer.__exit__) and
\* guess(), before run_id is set and before anything is appended.
ArgumentsTypeError ==
    /\ status = "running"
    /\ ~StopNow
    /\ \E drawn \in Draws(parameters_generators) :
           /\ PrepareArguments(parameters_generators, drawn.var_positional,
                               drawn.var_keyword).is = "TypeError"
           /\ invocation' = [is |-> "TypeError", drawn |-> drawn]
    /\ TracerExit
    /\ status' = "raised"
    /\ last_raise' = "none"
    /\ UNCHANGED <<funcs, scope, generator_lines, heap, tracer_runs, run_id, run_arguments,
                   runs_with_results, stop_conditions, call_limit, timeout,
                   suppress_exceptions, call_count, missed_lines, execution_time, guess_no,
                   calls, hook_before>>
    /\ UNCHANGED <<trace_opcodes, tracebacks, parameters_generators, resolver_vars,
                   generation_vars>>

ArgumentsNext ==
    \/ ArgumentsGuess
    \/ ArgumentsCall
    \/ ArgumentsTypeError
    \/ GuessEnd

ArgumentsSpec == ArgumentsInit /\ [][ArgumentsNext]_vars

(* ------------------------------ the resolver -------------------------- *)

\* The most the `limit` argument of new_get_generator is.
MaxLimit == 3

\* TypingGeneratorFactory.MIN_SUB_GENERATORS
MIN_SUB_GENERATORS == 1

\* TypingGeneratorFactory.MAX_SUB_GENERATORS, which is 10 in the source: the
\* most sub-generators a drawn amount asks for.
MAX_SUB_GENERATORS == 2

\* The kinds of the typing module besides, and those they are followed with:
\* None, the immutable containers, and the union and optional candidates.
TypingRegistry ==
    Registry \cup {"NoneGenerator", "FrozenSetGenerator", "TupleGenerator", "UnionGenerator",
                   "OptionalGenerator"}

\* The kinds that are ConcreteGenerators.
ConcreteKinds == TypingRegistry \ {"UnionGenerator", "OptionalGenerator"}

\* cls.generated_type
generated_type(kind) ==
    CASE kind = "IntGenerator" -> "int"
      [] kind = "BoolGenerator" -> "bool"
      [] kind = "ListGenerator" -> "list"
      [] kind = "SetGenerator" -> "set"
      [] kind = "DictGenerator" -> "dict"
      [] kind = "NoneGenerator" -> "NoneType"
      [] kind = "FrozenSetGenerator" -> "frozenset"
      [] kind = "TupleGenerator" -> "tuple"

\* cls.supported_qualifiers; for the union and the optional candidates, the
\* qualifiers their handle_specification lets through.
supported_qualifiers(kind) ==
    IF kind \in {"IntGenerator", "BoolGenerator", "NoneGenerator", "FrozenSetGenerator",
                 "TupleGenerator", "UnionGenerator", "OptionalGenerator"}
    THEN {"hashable"} ELSE {}

\* cls.unsupported_disqualifiers
unsupported_disqualifiers(kind) == IF kind = "NoneGenerator" THEN {"none"} ELSE {}

\* cls.config.immutable
immutable(kind) ==
    kind \in {"IntGenerator", "BoolGenerator", "NoneGenerator", "FrozenSetGenerator",
              "TupleGenerator", "UnionGenerator", "OptionalGenerator", "MemoryViewGenerator",
              "LiteralGenerator", "AnyGenerator"}

\* issubclass(cls, origin) on the classes of the model: object, the ABCs
\* Hashable and Iterable (typing.Iterable's origin), the builtins, and Foo,
\* a class of the user that no generator generates.
issubclass(cls, origin) ==
    \/ origin = "object"
    \/ cls = origin
    \/ cls = "bool" /\ origin = "int"
    \/ cls \in {"int", "bool", "NoneType", "frozenset", "tuple"} /\ origin = "Hashable"
    \/ cls \in {"list", "set", "dict", "frozenset", "tuple"} /\ origin = "Iterable"

\* inspect.isclass(origin): typing.Union and typing.Optional are no classes.
isclass(origin) == origin \notin {"Union", "Optional"}

\* TypeSpecification.is_any
is_any(specification) == specification.origin = "object"

\* A specification: a plain or subscripted type (no qualifiers) or a
\* TypeSpecification of one accepted type; `origin` and `args` are what
\* TypeSpecification.get_origin and get_args give.
Type(origin, args) ==
    [origin |-> origin, args |-> args, qualifiers |-> {}, disqualifiers |-> {}]

\* TypeSpecification(accepted=accepted, qualifiers=qualifiers)
TypeSpecification(accepted, qualifiers) ==
    [origin |-> accepted.origin, args |-> accepted.args, qualifiers |-> qualifiers,
     disqualifiers |-> {}]

\* TypeSpecification(..., disqualifiers=disqualifiers) of the specification
\* made without them.
Disqualified(specification, disqualifiers) ==
    [specification EXCEPT !.disqualifiers = disqualifiers]

\* requires_hashable_explicitly
requires_hashable_explicitly(specification) ==
    specification.origin = "Hashable" \/ "hashable" \in specification.qualifiers

\* handle_qualifiers_by_typing
handle_qualifiers_by_typing(specification) ==
    specification.qualifiers \cup
        (IF requires_hashable_explicitly(specification) THEN {"hashable"} ELSE {})

\* The match that does not look at the qualifiers.
matches_specification_any_qualifier(kind, specification) ==
    /\ isclass(specification.origin)
    /\ specification.disqualifiers \cap unsupported_disqualifiers(kind) = {}
    /\ issubclass(generated_type(kind), specification.origin)

\* ConcreteGenerator._matches_specification (is_any(object) leaves object).
matches_specification(kind, specification) ==
    /\ isclass(specification.origin)
    /\ handle_qualifiers_by_typing(specification) \ supported_qualifiers(kind) = {}
    /\ specification.disqualifiers \cap unsupported_disqualifiers(kind) = {}
    /\ issubclass(generated_type(kind), specification.origin)

\* What handle_specification ends with: None, a RequiresSpecification with
\* its to_resolve, or the IndexError of a subscript.
NoRequirements == [is |-> "None", to_resolve |-> <<>>]
Requires(to_resolve) == [is |-> "RequiresSpecification", to_resolve |-> to_resolve]
RaisesIndexError == [is |-> "IndexError", to_resolve |-> <<>>]

\* A requirement (amount, specification) whose amount is a callable: `amount`
\* is what the callable can return.
Repeated(amount, specification) == [amount |-> amount, specification |-> specification]

\* The types the subscripts of the model are made of besides.
NoneType == [origin |-> "NoneType", args |-> <<>>, qualifiers |-> {}, disqualifiers |-> {}]
Ellipsis == [origin |-> "Ellipsis", args |-> <<>>, qualifiers |-> {}, disqualifiers |-> {}]
object == [origin |-> "object", args |-> <<>>, qualifiers |-> {}, disqualifiers |-> {}]
Hashable == [origin |-> "Hashable", args |-> <<>>, qualifiers |-> {}, disqualifiers |-> {}]

\* `type in args`
ArgsHave(args, type) == \E i \in DOMAIN args : args[i] = type

\* The union candidate that hands the disqualifiers on as they came.
UnionGenerator_handle_specification_adds_none(specification) ==
    LET args == specification.args
        qualifiers == handle_qualifiers_by_typing(specification)
        disqualifiers == specification.disqualifiers
    IN  IF specification.origin # "Union" /\ ~is_any(specification) THEN NoRequirements
        ELSE IF ArgsHave(args, NoneType) THEN NoRequirements
        ELSE IF qualifiers \ {"hashable"} # {} THEN NoRequirements
        ELSE IF "union" \in specification.disqualifiers THEN NoRequirements
        ELSE IF args = <<>>
        THEN Requires(<<Repeated(2..16,
                                 Disqualified(TypeSpecification(object, qualifiers),
                                              disqualifiers))>>)
        ELSE Requires([i \in DOMAIN args |->
                          Disqualified(TypeSpecification(args[i], qualifiers), disqualifiers)])

\* UnionGenerator.handle_specification
UnionGenerator_handle_specification(specification) ==
    LET args == specification.args
        qualifiers == handle_qualifiers_by_typing(specification)
        disqualifiers == specification.disqualifiers \cup {"union", "optional"}
    IN  IF specification.origin # "Union" /\ ~is_any(specification) THEN NoRequirements
        ELSE IF ArgsHave(args, NoneType) THEN NoRequirements
        ELSE IF qualifiers \ {"hashable"} # {} THEN NoRequirements
        ELSE IF "union" \in specification.disqualifiers THEN NoRequirements
        ELSE IF args = <<>>
        THEN Requires(<<Repeated(2..16,
                                 Disqualified(TypeSpecification(object, qualifiers),
                                              disqualifiers))>>)
        ELSE Requires([i \in DOMAIN args |->
                          Disqualified(TypeSpecification(args[i], qualifiers), disqualifiers)])

\* OptionalGenerator.handle_specification
OptionalGenerator_handle_specification(specification) ==
    LET given == specification.args
        present == SelectSeq(IF given = <<>> THEN <<object>> ELSE given,
                             LAMBDA arg : arg # NoneType)
        args == IF Len(present) > 1
                THEN <<[origin |-> "Union", args |-> present, qualifiers |-> {},
                        disqualifiers |-> {}]>>
                ELSE present
        qualifiers == handle_qualifiers_by_typing(specification)
        disqualifiers == specification.disqualifiers \cup {"none", "optional"}
    IN  IF specification.origin \notin {"Optional", "Union"} /\ ~is_any(specification)
        THEN NoRequirements
        ELSE IF given # <<>> /\ ~ArgsHave(given, NoneType) THEN NoRequirements
        ELSE IF qualifiers \ {"hashable"} # {} THEN NoRequirements
        ELSE IF "optional" \in specification.disqualifiers THEN NoRequirements
        ELSE IF args = <<>> THEN RaisesIndexError
        ELSE Requires(<<Disqualified(TypeSpecification(args[1], qualifiers), disqualifiers)>>)

\* cls.handle_specification(specification) of each kind:
\* FinalConcreteGenerator's for IntGenerator and BoolGenerator, NoneGenerator's
\* (of a specification that is not None itself), IterableGenerator's for
\* ListGenerator, SetGenerator's (FrozenSetGenerator's too), TupleGenerator's,
\* DictGenerator's (which reads args[0] and args[1] of whatever arguments
\* there are), and those of the union and optional candidates.
handle_specification(kind, specification) ==
    LET args == specification.args
    IN  IF kind = "UnionGenerator" THEN UnionGenerator_handle_specification(specification)
        ELSE IF kind = "OptionalGenerator"
        THEN OptionalGenerator_handle_specification(specification)
        ELSE IF ~matches_specification(kind, specification) THEN NoRequirements
        ELSE IF kind \in {"IntGenerator", "BoolGenerator", "NoneGenerator"}
        THEN IF args # <<>> THEN NoRequirements ELSE Requires(<<>>)
        ELSE IF kind = "ListGenerator"
        THEN Requires(<<TypeSpecification(
                            IF args = <<>> THEN Type("object", <<>>) ELSE args[1],
                            handle_qualifiers_by_typing(specification))>>)
        ELSE IF kind \in {"SetGenerator", "FrozenSetGenerator"}
        THEN Requires(<<TypeSpecification(
                            IF args = <<>> THEN Type("Hashable", <<>>) ELSE args[1],
                            specification.qualifiers \cup {"hashable"})>>)
        ELSE IF kind = "TupleGenerator"
        THEN IF Len(args) = 2 /\ args[2] = Ellipsis THEN NoRequirements
             ELSE LET members == IF args = <<>> THEN <<object>> ELSE args
                  IN  Requires([i \in DOMAIN members |->
                                   TypeSpecification(
                                       members[i],
                                       handle_qualifiers_by_typing(specification))])
        ELSE IF args = <<>>
        THEN Requires(<<TypeSpecification(Type("Hashable", <<>>), {"hashable"}),
                        Type("object", <<>>)>>)
        ELSE IF Len(args) < 2 THEN RaisesIndexError
        ELSE Requires(<<TypeSpecification(args[1], {"hashable"}), args[2]>>)

\* What a call of new_get_generator, or one round of its loop, ends with: a
\* generator (the kind instantiated and its sub-generators), None, or an
\* exception.
Built(kind, sub_generators) ==
    [is |-> "generator", kind |-> kind, sub_generators |-> sub_generators]
Nothing == [is |-> "None", kind |-> "", sub_generators |-> <<>>]
Raised == [is |-> "raised", kind |-> "", sub_generators |-> <<>>]

\* One round of the loop of new_get_generator for possible_match = kind, and
\* new_get_generator itself, whatever the shuffles of the calls below are.
\* A round ends with the generator the callback builds (`found`), with
\* None (the round goes on to the next kind: no requirements, the limit is
\* 1 and there is something to resolve, or a sub-specification resolved to
\* None), or with the exception that leaves it.  The sub-generators of a
\* packed requirement are kept in a row with the others.
RECURSIVE Round(_, _, _), ResolveAll(_, _, _, _), Matching(_, _, _), new_get_generator(_, _)

\* The round that skips a candidate with something to resolve when the limit
\* is 0, not 1.
Round_skips_at_zero(kind, specification, limit) ==
    LET requirements == handle_specification(kind, specification)
    IN  IF requirements.is = "IndexError" THEN {Raised}
        ELSE IF requirements.is = "None" \/ (limit = 0 /\ requirements.to_resolve # <<>>)
        THEN {Nothing}
        ELSE {IF resolved.is = "generator" THEN Built(kind, resolved.sub_generators)
              ELSE resolved :
                  resolved \in ResolveAll(requirements.to_resolve, 1, limit, <<>>)}

Round(kind, specification, limit) ==
    LET requirements == handle_specification(kind, specification)
    IN  IF requirements.is = "IndexError" THEN {Raised}
        ELSE IF requirements.is = "None" \/ (limit = 1 /\ requirements.to_resolve # <<>>)
        THEN {Nothing}
        ELSE {IF resolved.is = "generator" THEN Built(kind, resolved.sub_generators)
              ELSE resolved :
                  resolved \in ResolveAll(requirements.to_resolve, 1, limit, <<>>)}

\* The amounts of a requirement: 1 of a specification, and of a callable the
\* first it returns within MIN_SUB_GENERATORS..MAX_SUB_GENERATORS.
Amounts(requirement) ==
    IF "amount" \in DOMAIN requirement
    THEN {amount \in requirement.amount :
              MIN_SUB_GENERATORS <= amount /\ amount <= MAX_SUB_GENERATORS}
    ELSE {1}

\* type_to_resolve of a requirement
TypeToResolve(requirement) ==
    IF "amount" \in DOMAIN requirement THEN requirement.specification ELSE requirement

\* The loop over requirements.to_resolve from the i-th requirement on, with
\* `resolved` so far.
ResolveAll(to_resolve, i, limit, resolved) ==
    IF i > Len(to_resolve) THEN {Built("", resolved)}
    ELSE UNION {IF matching.is = "generator"
                THEN ResolveAll(to_resolve, i + 1, limit, resolved \o matching.sub_generators)
                ELSE {matching} :
                    matching \in UNION {Matching(TypeToResolve(to_resolve[i]), amount, limit) :
                                            amount \in Amounts(to_resolve[i])}}

\* matching = [new_get_generator(type_to_resolve, limit - 1) for _ in
\* range(amount)] and the test all(matching): the generators, None when one
\* of them is None, or the exception of a call.
Matching(type_to_resolve, amount, limit) ==
    IF amount = 0 THEN {Built("", <<>>)}
    ELSE LET each == new_get_generator(type_to_resolve, limit - 1)
             others == Matching(type_to_resolve, amount - 1, limit)
         IN  {IF one.is = "raised" \/ rest.is = "raised" THEN Raised
              ELSE IF one.is = "None" \/ rest.is = "None" THEN Nothing
              ELSE Built("", <<one>> \o rest.sub_generators) :
                  one \in each, rest \in others}

\* new_get_generator(specification, limit) over every shuffle: the first
\* kind of the shuffle that does not end with None decides, and any kind can
\* be first; None is returned when every kind ends with None.
new_get_generator(specification, limit) ==
    LET rounds == [kind \in inheritances |-> Round(kind, specification, limit)]
    IN  {result \in UNION {rounds[kind] : kind \in inheritances} : result.is # "None"}
        \cup (IF \A kind \in inheritances : Nothing \in rounds[kind] THEN {Nothing} ELSE {})

\* The annotations new_get_generator is called with.
int == Type("int", <<>>)
Foo == Type("Foo", <<>>)
ListOf(arg) == Type("list", <<arg>>)
SetOf(arg) == Type("set", <<arg>>)
IterableOf(arg) == Type("Iterable", <<arg>>)
Annotations ==
    {int, Foo, Type("list", <<>>), ListOf(int), ListOf(Foo), SetOf(ListOf(int)),
     IterableOf(int), IterableOf(ListOf(int))}

\* random.shuffle(generators_): the registry in any order.
Shuffles ==
    {order \in [1..Cardinality(inheritances) -> inheritances] :
        \A kind \in inheritances : \E i \in DOMAIN order : order[i] = kind}

\* Everything of the Guesser.
guesser_vars_ ==
    <<funcs, scope, generator_lines, trace_hook, original_trace, heap, tracer_runs, run_id,
      run_arguments, runs_with_results, status, stop_conditions, call_limit, timeout,
      suppress_exceptions, call_count, missed_lines, execution_time, guess_no, calls,
      last_raise, hook_before, enters, exits, trace_opcodes, tracebacks,
      parameters_generators, invocation>>

\* What the resolver does not touch: the Guesser and the generators built
\* on their own.
guesser_vars == <<guesser_vars_, generation_vars>>

\* No Guesser in use, no call of new_get_generator made.
ResolverInit ==
    /\ funcs = <<"f">>
    /\ scope = TracerScope(<<"f">>)
    /\ generator_lines = {}
    /\ trace_hook = "none"
    /\ original_trace = "none"
    /\ heap = <<>>
    /\ tracer_runs = <<>>
    /\ run_id = 0
    /\ run_arguments = <<>>
    /\ runs_with_results = <<>>
    /\ status = "idle"
    /\ stop_conditions = 0
    /\ call_limit = 0
    /\ timeout = 0
    /\ suppress_exceptions = {}
    /\ call_count = 0
    /\ missed_lines = EmptyLines
    /\ execution_time = 0
    /\ guess_no = 0
    /\ calls = <<>>
    /\ last_raise = "none"
    /\ hook_before = trace_hook
    /\ enters = 0
    /\ exits = 0
    /\ NothingAside

\* new_get_generator(annotation, limit) up to the loop: the registry is
\* shuffled and found is None.
ResolveBegin ==
    /\ resolving = "idle"
    /\ annotation' \in Annotations
    /\ depth_limit' \in 1..MaxLimit
    /\ generators_' \in Shuffles
    /\ found' = Nothing
    /\ tried' = <<>>
    /\ resolving' = "looping"
    /\ UNCHANGED inheritances
    /\ UNCHANGED guesser_vars

\* One round of the loop, for the next kind of generators_: handle its
\* requirements and resolve them; instantiate it, break and return found
\* when all resolved, go on otherwise; an exception leaves the call.
ResolveRound ==
    /\ resolving = "looping"
    /\ Len(tried) < Len(generators_)
    /\ LET possible_match == generators_[Len(tried) + 1]
       IN  \E result \in Round(possible_match, annotation, depth_limit) :
               /\ tried' = Append(tried,
                                  [possible_match |-> possible_match,
                                   requirements |->
                                       handle_specification(possible_match, annotation).is,
                                   result |-> result])
               /\ found' = IF result.is = "generator" THEN result ELSE found
               /\ resolving' = CASE result.is = "generator" -> "returned"
                                 [] result.is = "raised" -> "raised"
                                 [] OTHER -> "looping"
    /\ UNCHANGED <<annotation, depth_limit, generators_, inheritances>>
    /\ UNCHANGED guesser_vars

\* The loop has gone through every kind: return found, which is None.
ResolveExhausted ==
    /\ resolving = "looping"
    /\ Len(tried) = Len(generators_)
    /\ resolving' = "returned"
    /\ UNCHANGED <<annotation, depth_limit, generators_, found, tried, inheritances>>
    /\ UNCHANGED guesser_vars

ResolverNext ==
    \/ ResolveBegin
    \/ ResolveRound
    \/ ResolveExhausted

ResolverSpec == ResolverInit /\ [][ResolverNext]_vars

(* --------------------- the resolver, typing kinds --------------------- *)

\* The annotations new_get_generator is called with when the union and the
\* optional candidates are defined: typing.Union[...] is flat and has no
\* duplicates, typing.Optional[X] is Union[X, None].
UnionOf(args) == Type("Union", args)
TupleOf(args) == Type("tuple", args)
TypingAnnotations ==
    {object, Hashable, NoneType, int,
     Type("Optional", <<>>), Type("Union", <<>>),
     UnionOf(<<int, NoneType>>), UnionOf(<<int, Type("bool", <<>>)>>),
     UnionOf(<<int, ListOf(int)>>), UnionOf(<<int, TupleOf(<<int>>), NoneType>>),
     Type("set", <<>>), Type("dict", <<>>), Type("tuple", <<>>),
     SetOf(TupleOf(<<int, Type("bool", <<>>)>>)), SetOf(TupleOf(<<int, ListOf(int)>>)),
     SetOf(UnionOf(<<int, ListOf(int)>>)), SetOf(UnionOf(<<int, TupleOf(<<int>>)>>)),
     Type("frozenset", <<UnionOf(<<int, NoneType>>)>>),
     Type("dict", <<TupleOf(<<int>>), ListOf(int)>>),
     Type("dict", <<ListOf(int), int>>),
     TupleOf(<<int, Ellipsis>>)}

\* No Guesser in use, no call of new_get_generator made, the typing kinds
\* defined.
TypingInit ==
    /\ funcs = <<"f">>
    /\ scope = TracerScope(<<"f">>)
    /\ generator_lines = {}
    /\ trace_hook = "none"
    /\ original_trace = "none"
    /\ heap = <<>>
    /\ tracer_runs = <<>>
    /\ run_id = 0
    /\ run_arguments = <<>>
    /\ runs_with_results = <<>>
    /\ status = "idle"
    /\ stop_conditions = 0
    /\ call_limit = 0
    /\ timeout = 0
    /\ suppress_exceptions = {}
    /\ call_count = 0
    /\ missed_lines = EmptyLines
    /\ execution_time = 0
    /\ guess_no = 0
    /\ calls = <<>>
    /\ last_raise = "none"
    /\ hook_before = trace_hook
    /\ enters = 0
    /\ exits = 0
    /\ trace_opcodes = FALSE
    /\ tracebacks = <<>>
    /\ parameters_generators = [is |-> "unspecified"]
    /\ invocation = [is |-> "none"]
    /\ annotation = [is |-> "none"]
    /\ depth_limit = 0
    /\ generators_ = <<>>
    /\ found = [is |-> "none"]
    /\ tried = <<>>
    /\ inheritances = TypingRegistry
    /\ resolving = "idle"
    /\ NotGenerating

\* A whole call new_get_generator(annotation, limit), with any shuffle at
\* any level: it returns found, a generator or None, or raises.  The order
\* of the shuffle is not followed here (generators_ and tried stay empty).
TypingResolve ==
    /\ resolving = "idle"
    /\ annotation' \in TypingAnnotations
    /\ depth_limit' \in 1..MaxLimit
    /\ \E result \in new_get_generator(annotation', depth_limit') :
           /\ found' = IF result.is = "generator" THEN result ELSE Nothing
           /\ resolving' = IF result.is = "raised" THEN "raised" ELSE "returned"
    /\ UNCHANGED <<generators_, tried, inheritances>>
    /\ UNCHANGED guesser_vars

TypingNext == TypingResolve

TypingSpec == TypingInit /\ [][TypingNext]_vars

(* --------------------------- the any generator ------------------------ *)

\* The most the max_depth of an AnyGenerator is.
MaxDepth == 3

\* The most sub-generators a kind of any arity is given here; the source
\* draws random.randint(1, 10).
MaxAnySubGenerators == 2

\* GENERATORS, as far as it is followed: three kinds without
\* sub-generators (int, the mutable bytearray, memoryview), the containers,
\* the optional kind, the literal kind, which does not require generators
\* only, and the any kind itself.
GENERATORS ==
    {"IntGenerator", "ByteArrayGenerator", "MemoryViewGenerator", "ListGenerator",
     "SetGenerator", "FrozenSetGenerator", "DictGenerator", "TupleGenerator",
     "OptionalGenerator", "LiteralGenerator", "AnyGenerator"}

\* cls.config.sub_generators_number
sub_generators_number(kind) ==
    CASE kind \in {"IntGenerator", "ByteArrayGenerator", "MemoryViewGenerator"} -> 0
      [] kind \in {"ListGenerator", "SetGenerator", "FrozenSetGenerator",
                   "OptionalGenerator"} -> 1
      [] kind = "DictGenerator" -> 2
      [] kind \in {"TupleGenerator", "LiteralGenerator", "AnyGenerator"} -> -1

\* cls.config.requires_only_generators
requires_only_generators(kind) == kind # "LiteralGenerator"

\* The given_generator_options an AnyGenerator is made with: none (GENERATORS
\* is used), kinds of which none is without sub-generators, and a few kinds
\* with the any kind among them.
OptionPools ==
    {{}, {"ListGenerator", "TupleGenerator"},
     {"IntGenerator", "ByteArrayGenerator", "SetGenerator", "AnyGenerator"}}

\* What generate_generator ends with: the generator of the chosen kind over
\* its sub-generators, with the max_depth and require_hashable it was chosen
\* under (history), or the ValueError of an empty choice.
Chosen(kind, sub_generators, max_depth, require_hashable) ==
    [is |-> "generator", kind |-> kind, sub_generators |-> sub_generators,
     max_depth |-> max_depth, require_hashable |-> require_hashable]
NoMatchingGenerator ==
    [is |-> "raised", kind |-> "", sub_generators |-> <<>>, max_depth |-> 0,
     require_hashable |-> FALSE]

\* The filters that ignore require_hashable.
generator_options_mutable_too(given_generator_options, max_depth, require_hashable) ==
    {kind \in (IF given_generator_options = {} THEN GENERATORS ELSE given_generator_options) :
        /\ requires_only_generators(kind)
        /\ kind # "AnyGenerator"
        /\ max_depth <= 1 => sub_generators_number(kind) = 0}

\* The filters with the depth test at 0.
generator_options_one_deeper(given_generator_options, max_depth, require_hashable) ==
    {kind \in (IF given_generator_options = {} THEN GENERATORS ELSE given_generator_options) :
        /\ requires_only_generators(kind)
        /\ kind # "AnyGenerator"
        /\ require_hashable => immutable(kind)
        /\ max_depth <= 0 => sub_generators_number(kind) = 0}

\* generator_options after the filters of generate_generator.
generator_options(given_generator_options, max_depth, require_hashable) ==
    {kind \in (IF given_generator_options = {} THEN GENERATORS ELSE given_generator_options) :
        /\ requires_only_generators(kind)
        /\ kind # "AnyGenerator"
        /\ require_hashable => immutable(kind)
        /\ max_depth <= 1 => sub_generators_number(kind) = 0}

\* The require_hashable of the recursive calls for the chosen kind, in the
\* order they are made.
SubCalls(chosen_generator, require_hashable) ==
    IF chosen_generator \in {"SetGenerator", "FrozenSetGenerator"} THEN {<<TRUE>>}
    ELSE IF chosen_generator = "DictGenerator" THEN {<<TRUE, require_hashable>>}
    ELSE IF sub_generators_number(chosen_generator) = -1
    THEN {[i \in 1..n |-> require_hashable] : n \in 1..MaxAnySubGenerators}
    ELSE {[i \in 1..sub_generators_number(chosen_generator) |-> require_hashable]}

\* AnyGenerator.generate_generator, whatever random.choice picks, and its
\* recursive calls from the i-th on.
RECURSIVE generate_generator(_, _, _), SubGenerators(_, _, _, _)
generate_generator(given_generator_options, max_depth, require_hashable) ==
    LET options == generator_options(given_generator_options, max_depth, require_hashable)
    IN  IF options = {} THEN {NoMatchingGenerator}
        ELSE UNION {UNION {{IF subs.is = "raised" THEN NoMatchingGenerator
                            ELSE Chosen(chosen_generator, subs.sub_generators, max_depth,
                                        require_hashable) :
                                subs \in SubGenerators(given_generator_options, max_depth - 1,
                                                       calls_, 1)} :
                               calls_ \in SubCalls(chosen_generator, require_hashable)} :
                        chosen_generator \in options}

SubGenerators(given_generator_options, max_depth, calls_, i) ==
    IF i > Len(calls_) THEN {Built("", <<>>)}
    ELSE UNION {IF sub.is = "raised" THEN {Raised}
                ELSE {IF rest.is = "raised" THEN Raised
                      ELSE Built("", <<sub>> \o rest.sub_generators) :
                          rest \in SubGenerators(given_generator_options, max_depth, calls_,
                                                 i + 1)} :
                    sub \in generate_generator(given_generator_options, max_depth, calls_[i])}

\* What calling a generator gives: a value, of which its type and whether
\* hash() takes it are kept, or the exception of hashing an element.
Value(type, hashable) == [is |-> "value", type |-> type, hashable |-> hashable]
UnhashableElement == [is |-> "raised", type |-> "unhashable", hashable |-> FALSE]

\* The values and exceptions of calling the generator of a tree built by
\* generate_generator, every kind with its default arguments: lengths from
\* 0 on, a memoryview over the bytes or, with bytearray_chance 0.5, over a
\* bytearray of them.
RECURSIVE Values(_)
Values(tree) ==
    LET subs == [i \in DOMAIN tree.sub_generators |-> Values(tree.sub_generators[i])]
        raises == UNION {{element \in subs[i] : element.is = "raised"} : i \in DOMAIN subs}
        unhashable(i) == \E element \in subs[i] : element.is = "value" /\ ~element.hashable
        hashables(i) == {element.hashable : element \in {e \in subs[i] : e.is = "value"}}
    IN  CASE tree.kind = "IntGenerator" -> {Value("int", TRUE)}
          [] tree.kind = "ByteArrayGenerator" -> {Value("bytearray", FALSE)}
          [] tree.kind = "MemoryViewGenerator" ->
                 {Value("memoryview", TRUE), Value("memoryview", FALSE)}
          [] tree.kind = "ListGenerator" -> {Value("list", FALSE)} \cup raises
          [] tree.kind = "SetGenerator" ->
                 {Value("set", FALSE)} \cup raises
                     \cup (IF unhashable(1) THEN {UnhashableElement} ELSE {})
          [] tree.kind = "FrozenSetGenerator" ->
                 {Value("frozenset", TRUE)} \cup raises
                     \cup (IF unhashable(1) THEN {UnhashableElement} ELSE {})
          [] tree.kind = "DictGenerator" ->
                 {Value("dict", FALSE)} \cup raises
                     \cup (IF unhashable(1) THEN {UnhashableElement} ELSE {})
          [] tree.kind = "TupleGenerator" ->
                 {Value("tuple", \A i \in DOMAIN subs : each[i]) :
                      each \in {f \in [DOMAIN subs -> BOOLEAN] :
                                    \A i \in DOMAIN subs : f[i] \in hashables(i)}}
                     \cup raises
          [] tree.kind = "OptionalGenerator" -> {Value("NoneType", TRUE)} \cup subs[1]

\* AnyGenerator.__init__: some options, a max_depth, a require_hashable.
AnyInit ==
    /\ funcs = <<"f">>
    /\ scope = TracerScope(<<"f">>)
    /\ generator_lines = {}
    /\ trace_hook = "none"
    /\ original_trace = "none"
    /\ heap = <<>>
    /\ tracer_runs = <<>>
    /\ run_id = 0
    /\ run_arguments = <<>>
    /\ runs_with_results = <<>>
    /\ status = "idle"
    /\ stop_conditions = 0
    /\ call_limit = 0
    /\ timeout = 0
    /\ suppress_exceptions = {}
    /\ call_count = 0
    /\ missed_lines = EmptyLines
    /\ execution_time = 0
    /\ guess_no = 0
    /\ calls = <<>>
    /\ last_raise = "none"
    /\ hook_before = trace_hook
    /\ enters = 0
    /\ exits = 0
    /\ trace_opcodes = FALSE
    /\ tracebacks = <<>>
    /\ parameters_generators = [is |-> "unspecified"]
    /\ invocation = [is |-> "none"]
    /\ NotResolving
    /\ any_call \in [is : {"AnyGenerator"}, sub_generators : OptionPools,
                      max_depth : 0..MaxDepth, require_hashable : BOOLEAN]
    /\ built_generator = [is |-> "none"]
    /\ produced = [is |-> "none"]

\* The first half of AnyGenerator.__call__:
\* generate_generator(self._sub_generators, self._max_depth,
\* self._require_hashable) returns a generator or raises ValueError.
AnyGenerate ==
    /\ built_generator.is = "none"
    /\ built_generator' \in generate_generator(any_call.sub_generators, any_call.max_depth,
                                               any_call.require_hashable)
    /\ UNCHANGED <<any_call, produced>>
    /\ UNCHANGED <<guesser_vars_, resolver_vars>>

\* The second half: the generator built is called.
AnyProduce ==
    /\ built_generator.is = "generator"
    /\ produced.is = "none"
    /\ produced' \in Values(built_generator)
    /\ UNCHANGED <<any_call, built_generator>>
    /\ UNCHANGED <<guesser_vars_, resolver_vars>>

AnyNext ==
    \/ AnyGenerate
    \/ AnyProduce

AnySpec == AnyInit /\ [][AnyNext]_vars

(* ---------------------- the generators with bounds -------------------- *)

\* The most a start, a stop and a step are, in absolute value.
MaxBound == 3

\* The most a min_length and a max_length are.
MaxLength == 3

\* No Guesser in use.
NoGuesser ==
    /\ funcs = <<"f">>
    /\ scope = TracerScope(<<"f">>)
    /\ generator_lines = {}
    /\ trace_hook = "none"
    /\ original_trace = "none"
    /\ heap = <<>>
    /\ tracer_runs = <<>>
    /\ run_id = 0
    /\ run_arguments = <<>>
    /\ runs_with_results = <<>>
    /\ status = "idle"
    /\ stop_conditions = 0
    /\ call_limit = 0
    /\ timeout = 0
    /\ suppress_exceptions = {}
    /\ call_count = 0
    /\ missed_lines = EmptyLines
    /\ execution_time = 0
    /\ guess_no = 0
    /\ calls = <<>>
    /\ last_raise = "none"
    /\ hook_before = trace_hook
    /\ enters = 0
    /\ exits = 0
    /\ trace_opcodes = FALSE
    /\ tracebacks = <<>>
    /\ parameters_generators = [is |-> "unspecified"]
    /\ invocation = [is |-> "none"]

\* IntGenerator(start, stop, step) with start < stop and a step of 1 or more.
IntGenerators ==
    {[is |-> "generator", kind |-> "IntGenerator", start |-> start, stop |-> stop,
      step |-> step] :
         start \in -MaxBound..MaxBound, stop \in -MaxBound..MaxBound, step \in 1..MaxBound}

\* FloatGenerator(start, stop, step, special_cases_chance): the floats are
\* counted in a unit all of them are exact multiples of (a half, say, so
\* that 1 is 0.5 and a step of 2 is 1.0); step 0 stands for None too, and
\* the chance is kept as zero or positive, as the default is.
FloatGenerators ==
    {[is |-> "generator", kind |-> "FloatGenerator", start |-> start, stop |-> stop,
      step |-> step, special_cases_chance |-> chance] :
         start \in -MaxBound..MaxBound, stop \in -MaxBound..MaxBound, step \in 0..MaxBound,
         chance \in {"zero", "positive"}}

\* StringGenerator and BytesGenerator (min_length, max_length, selection): of
\* the selection, the numbers of bytes its characters take in the encoding
\* are kept (1 for all of string.printable, the default).
StringGenerators ==
    {[is |-> "generator", kind |-> kind, min_length |-> min_length,
      max_length |-> max_length, selection |-> selection] :
         kind \in {"StringGenerator", "BytesGenerator"}, min_length \in 0..MaxLength,
         max_length \in 0..MaxLength, selection \in {{1}, {1, 2}}}

\* What a call ends with: a number (the special floats apart), a text of a
\* length, or the ValueError of an empty range.
Number(type, number) ==
    [is |-> "value", type |-> type, number |-> number, special |-> "none", length |-> 0]
Special(special) ==
    [is |-> "value", type |-> "float", number |-> 0, special |-> special, length |-> 0]
Text(type, length) ==
    [is |-> "value", type |-> type, number |-> 0, special |-> "none", length |-> length]
EmptyRange ==
    [is |-> "raised", type |-> "ValueError", number |-> 0, special |-> "none", length |-> 0]

\* What random.randrange(start, stop, step) can return, for a step of 1 or
\* more; nothing when the range is empty (it raises ValueError).
randrange(start, stop, step) ==
    {number \in start..(stop - 1) : (number - start) % step = 0}

\* int(a / b) for b > 0: the quotient, truncated towards zero.
IntOfQuotient(a, b) == IF a >= 0 THEN a \div b ELSE -((-a) \div b)

\* The randrange of FloatGenerator.__call__ with a step:
\* random.randrange(int(start / step), int(stop / step)).
FloatGenerator_randrange(start, stop, step) ==
    randrange(IntOfQuotient(start, step), IntOfQuotient(stop, step), 1)

\* The sums of `count` byte numbers of the selection: the lengths the
\* encoded text of `count` characters can have.
RECURSIVE EncodedLengths(_, _)
EncodedLengths(selection, count) ==
    IF count = 0 THEN {0}
    ELSE {first + rest : first \in selection, rest \in EncodedLengths(selection, count - 1)}

\* One generator with bounds was made.
LeavesInit ==
    /\ NoGuesser
    /\ NotResolving
    /\ any_call = [is |-> "none"]
    /\ built_generator \in
           {leaf \in IntGenerators \cup FloatGenerators : leaf.start < leaf.stop}
               \cup {leaf \in StringGenerators : leaf.min_length <= leaf.max_length}
    /\ produced = [is |-> "none"]

\* IntGenerator.__call__
IntGenerator_call ==
    /\ built_generator.kind = "IntGenerator"
    /\ LET drawn_ == randrange(built_generator.start, built_generator.stop,
                               built_generator.step)
       IN  produced' \in IF drawn_ = {} THEN {EmptyRange}
                         ELSE {Number("int", number) : number \in drawn_}
    /\ UNCHANGED <<any_call, built_generator>>
    /\ UNCHANGED <<guesser_vars_, resolver_vars>>

\* FloatGenerator.__call__: a special case when the chance lets it, a number
\* from start up to stop without a step, a multiple of the step with one.
FloatGenerator_call ==
    /\ built_generator.kind = "FloatGenerator"
    /\ LET start == built_generator.start
           stop == built_generator.stop
           step == built_generator.step
           special_cases ==
               IF built_generator.special_cases_chance = "positive"
               THEN {Special("inf"), Special("-inf"), Special("nan")} ELSE {}
           multiples == FloatGenerator_randrange(start, stop, step)
       IN  produced' \in special_cases \cup
               (IF step = 0
                THEN {Number("float", number) : number \in start..(stop - 1)}
                ELSE IF multiples = {} THEN {EmptyRange}
                ELSE {Number("float", multiple * step) : multiple \in multiples})
    /\ UNCHANGED <<any_call, built_generator>>
    /\ UNCHANGED <<guesser_vars_, resolver_vars>>

\* StringGenerator.__call__:
\* random.randrange(min_length, max_length + 1) characters of the selection.
StringGenerator_call ==
    /\ built_generator.kind = "StringGenerator"
    /\ produced' \in {Text("str", count) :
                          count \in randrange(built_generator.min_length,
                                              built_generator.max_length + 1, 1)}
    /\ UNCHANGED <<any_call, built_generator>>
    /\ UNCHANGED <<guesser_vars_, resolver_vars>>

\* BytesGenerator.__call__: the string, encoded.
BytesGenerator_call ==
    /\ built_generator.kind = "BytesGenerator"
    /\ produced' \in
           {Text("bytes", length) :
                length \in UNION {EncodedLengths(built_generator.selection, count) :
                                      count \in randrange(built_generator.min_length,
                                                          built_generator.max_length + 1, 1)}}
    /\ UNCHANGED <<any_call, built_generator>>
    /\ UNCHANGED <<guesser_vars_, resolver_vars>>

LeavesNext ==
    \/ IntGenerator_call
    \/ FloatGenerator_call
    \/ StringGenerator_call
    \/ BytesGenerator_call

LeavesSpec == LeavesInit /\ [][LeavesNext]_vars

\* What a sub-generator can produce, for the containers: one value, two
\* (as BoolGenerator), three.
SubGeneratorValues == {{0}, {0, 1}, {0, 1, 2}}

\* IterableGenerator, ListGenerator, TupleEllipsisGenerator, SetGenerator
\* and FrozenSetGenerator (sub_generator, min_length, max_length), of the
\* sub-generator what it can produce.
IterableGenerators ==
    {[is |-> "generator", kind |-> kind, sub_generator |-> sub_generator,
      min_length |-> min_length, max_length |-> max_length] :
         kind \in {"IterableGenerator", "ListGenerator", "TupleEllipsisGenerator",
                   "SetGenerator", "FrozenSetGenerator"},
         sub_generator \in SubGeneratorValues,
         min_length \in 0..MaxLength, max_length \in 0..MaxLength}

\* DictGenerator(keys_generator, values_generator, min_length, max_length)
DictGenerators ==
    {[is |-> "generator", kind |-> "DictGenerator", keys_generator |-> keys_generator,
      values_generator |-> values_generator, min_length |-> min_length,
      max_length |-> max_length] :
         keys_generator \in SubGeneratorValues, values_generator \in {{0}, {0, 1}},
         min_length \in 0..MaxLength, max_length \in 0..MaxLength}

\* cls.generated_type of the containers (a generator's values, for
\* IterableGenerator, are counted as it is gone through).
generated_type_of_container(kind) ==
    CASE kind = "IterableGenerator" -> "generator"
      [] kind = "ListGenerator" -> "list"
      [] kind = "TupleEllipsisGenerator" -> "tuple"
      [] kind = "SetGenerator" -> "set"
      [] kind = "FrozenSetGenerator" -> "frozenset"

\* What the calls of the sub-generator give, in a row:
\* random.randint(min_length, max_length) values of it.
Generations(sub_generator, min_length, max_length) ==
    UNION {[1..count -> sub_generator] : count \in min_length..max_length}

\* A container produced: its type, what is in it and its len().
Container(type, content, length) ==
    [is |-> "value", type |-> type, content |-> content, length |-> length]

\* One container generator was made.
ContainersInit ==
    /\ NoGuesser
    /\ NotResolving
    /\ any_call = [is |-> "none"]
    /\ built_generator \in
           {container \in IterableGenerators \cup DictGenerators :
                container.min_length <= container.max_length}
    /\ produced = [is |-> "none"]

\* IterableGenerator.__call__ (the generator it returns, gone through),
\* ListGenerator.__call__ and TupleEllipsisGenerator.__call__: the values,
\* in a row.
IterableGenerator_call ==
    /\ built_generator.kind \in
           {"IterableGenerator", "ListGenerator", "TupleEllipsisGenerator"}
    /\ \E generation \in Generations(built_generator.sub_generator,
                                      built_generator.min_length,
                                      built_generator.max_length) :
           produced' = Container(generated_type_of_container(built_generator.kind),
                                 generation, Len(generation))
    /\ UNCHANGED <<any_call, built_generator>>
    /\ UNCHANGED <<guesser_vars_, resolver_vars>>

\* SetGenerator.__call__ and FrozenSetGenerator.__call__: set(...) and
\* frozenset(...) of the values.
SetGenerator_call ==
    /\ built_generator.kind \in {"SetGenerator", "FrozenSetGenerator"}
    /\ \E generation \in Generations(built_generator.sub_generator,
                                      built_generator.min_length,
                                      built_generator.max_length) :
           LET content == {generation[i] : i \in DOMAIN generation}
           IN  produced' = Container(generated_type_of_container(built_generator.kind),
                                     content, Cardinality(content))
    /\ UNCHANGED <<any_call, built_generator>>
    /\ UNCHANGED <<guesser_vars_, resolver_vars>>

\* DictGenerator.__call__: a key and a value generated for each of
\* random.randint(min_length, max_length) entries; a later entry replaces
\* an earlier one of the same key.
DictGenerator_call ==
    /\ built_generator.kind = "DictGenerator"
    /\ \E keys \in Generations(built_generator.keys_generator,
                                built_generator.min_length, built_generator.max_length) :
           \E values \in [DOMAIN keys -> built_generator.values_generator] :
               LET last(key) == CHOOSE i \in DOMAIN keys :
                                    /\ keys[i] = key
                                    /\ \A j \in DOMAIN keys : keys[j] = key => j <= i
                   content == [key \in {keys[i] : i \in DOMAIN keys} |-> values[last(key)]]
               IN  produced' = Container("dict", content, Cardinality(DOMAIN content))
    /\ UNCHANGED <<any_call, built_generator>>
    /\ UNCHANGED <<guesser_vars_, resolver_vars>>

ContainersNext ==
    \/ IterableGenerator_call
    \/ SetGenerator_call
    \/ DictGenerator_call

ContainersSpec == ContainersInit /\ [][ContainersNext]_vars

(* ------------------------ what the history shows ---------------------- *)

\* The target invocations of the current guess() that were recorded as runs
\* (those an exception did not leave through guess()).
Recorded == {i \in 1..Len(calls) : calls[i].result # "propagated"}

\* The locations of the scope the recorded runs executed.
Covered == Locations(scope) \cap UNION {calls[i].executed : i \in Recorded}

\* The locations of the scope the first n target invocations executed.
CoveredBy(n) == Locations(scope) \cap UNION {calls[i].executed : i \in 1..n}

\* The outcome of the most recent run is an exception.
LastRunRaised == Len(calls) > 0 /\ IsException(calls[Len(calls)].result)

\* The stop conditions in the words of the specification, each for its flag.
ConditionMet(flag) ==
    CASE flag = CALL_LIMIT -> Len(calls) >= call_limit
      [] flag = TIMEOUT -> execution_time >= timeout
      [] flag = EXCEPTION_RAISED -> LastRunRaised
      [] flag = FULL_COVERAGE -> lines_length(missed_lines) = 0

Flags == {FULL_COVERAGE, TIMEOUT, CALL_LIMIT, EXCEPTION_RAISED}

\* An enabled stop condition is satisfied.
EnabledConditionMet ==
    \E flag \in Flags : HasFlag(stop_conditions, flag) /\ ConditionMet(flag)

\* This step invokes the target.
Invokes == status = "running" /\ guess_no' = guess_no /\ Len(calls') = Len(calls) + 1

\* This step is the normal end of the loop.
EndsLoop == status = "running" /\ status' = "returned"

\* An exception of this class is an instance of these classes.
InstanceOf(exception) ==
    IF exception = "ZeroDivisionError" THEN {"ZeroDivisionError", "ArithmeticError"}
    ELSE {exception}

(* --------------------- what the stored runs show ---------------------- *)

\* The ids of the stored runs.
StoredRuns == DOMAIN runs_with_results

\* The locations stored for the runs of a set.
VisitedBy(runs) == UNION {Locations(RunLines(i)) : i \in runs}

\* The two parts of the minimizer's result.
Cases == get_best_cover.cases
Remaining == Locations(get_best_cover.remaining)

\* How many locations of `rest` run r visited.
Gain(r, rest) == Cardinality(Locations(RunLines(r)) \cap rest)

\* The selection the specification describes, on sets of locations: while a
\* run visits a location of `rest`, take the run of the smallest id among
\* those that visit the most of them, and drop its locations from `rest`.
RECURSIVE EarliestLargest(_, _)
EarliestLargest(selected, rest) ==
    LET gaining == {r \in StoredRuns : Gain(r, rest) > 0}
        largest == {r \in gaining : \A q \in gaining : Gain(q, rest) <= Gain(r, rest)}
        first == CHOOSE r \in largest : \A q \in largest : r <= q
    IN  IF gaining = {} THEN selected
        ELSE EarliestLargest(selected \cup {first}, rest \ Locations(RunLines(first)))

\* The sets of stored runs that visit every location of the scope that the
\* stored runs together visit.
MaximumCovers ==
    {runs \in SUBSET StoredRuns :
        Locations(scope) \cap VisitedBy(StoredRuns) \subseteq VisitedBy(runs)}

(* ------------------------------ the claims ---------------------------- *)

\* C1: with CALL_LIMIT enabled and call_limit = N, guess() never starts or
\* records more than N runs, and when it returns with no other enabled stop
\* condition satisfied it has recorded exactly N runs.
C1_CallLimit ==
    (status # "idle" /\ HasFlag(stop_conditions, CALL_LIMIT)) =>
        /\ Len(calls) <= call_limit
        /\ call_count <= call_limit
        /\ Len(run_arguments) <= call_limit
        /\ (/\ status = "returned"
            /\ \A flag \in Flags \ {CALL_LIMIT} :
                   ~(HasFlag(stop_conditions, flag) /\ ConditionMet(flag)))
           => (Cardinality(Recorded) = call_limit /\ call_count = call_limit)

\* C1's case: guess() returned on the call limit alone after MaxRuns runs.
C1_Witness ==
    /\ status = "returned"
    /\ stop_conditions = CALL_LIMIT
    /\ call_limit = MaxRuns
    /\ Cardinality(Recorded) = MaxRuns

\* C2: the target is invoked only from a loop test at which no enabled stop
\* condition is satisfied, and the loop ends only at a test at which some
\* enabled condition is satisfied: a condition whose flag is not set never
\* ends the loop.
C2_StopConditions ==
    [][/\ Invokes => ~EnabledConditionMet
       /\ EndsLoop => EnabledConditionMet]_vars

\* C2's case: a second run was made although the call limit, whose flag is
\* not set, was already reached.
C2_Witness ==
    /\ status = "running"
    /\ ~HasFlag(stop_conditions, CALL_LIMIT)
    /\ call_limit <= 1
    /\ Len(calls) = 2

\* C3: with FULL_COVERAGE enabled no target invocation is made once the runs
\* made so far have executed every location of the scope, and guess() ends at
\* that loop test; the missed mapping is empty exactly when it holds no line.
C3_FullCoverage ==
    /\ [](HasFlag(stop_conditions, FULL_COVERAGE) =>
            \A n \in 1..Len(calls) : CoveredBy(n - 1) # Locations(scope))
    /\ [][(/\ status = "running"
           /\ HasFlag(stop_conditions, FULL_COVERAGE)
           /\ Covered = Locations(scope)) => status' = "returned"]_vars
    /\ []((DOMAIN missed_lines = {}) <=> (lines_length(missed_lines) = 0))

\* C3's case: guess() returned on full coverage, reached by the second run.
C3_Witness ==
    /\ status = "returned"
    /\ stop_conditions = FULL_COVERAGE
    /\ Len(calls) = 2
    /\ CoveredBy(1) # Locations(scope)
    /\ Covered = Locations(scope)

\* C4: with EXCEPTION_RAISED enabled a run whose outcome is an exception is
\* the last run of the invocation and guess() ends at the next loop test;
\* guess() ending on this condition alone ends after such a run.
C4_ExceptionRaised ==
    /\ []((status # "idle" /\ HasFlag(stop_conditions, EXCEPTION_RAISED)) =>
            \A i \in 1..Len(calls) : IsException(calls[i].result) => i = Len(calls))
    /\ [][(/\ status = "running"
           /\ HasFlag(stop_conditions, EXCEPTION_RAISED)
           /\ LastRunRaised) => status' = "returned"]_vars
    /\ []((status = "returned" /\ stop_conditions = EXCEPTION_RAISED) => LastRunRaised)

\* C4's case: guess() returned on an exception that the second run raised.
C4_Witness ==
    /\ status = "returned"
    /\ stop_conditions = EXCEPTION_RAISED
    /\ Len(calls) = 2
    /\ ~IsException(calls[1].result)
    /\ last_raise = "ZeroDivisionError"

\* C5: within a guess() the number of missed lines never increases, the
\* locations of the scope the recorded runs executed and the missed lines add
\* up to the scope, and so do the counts of the coverage summary.
C5_CoverageMonotone ==
    /\ [][(status = "running" /\ guess_no' = guess_no) =>
             lines_length(missed_lines') <= lines_length(missed_lines)]_vars
    /\ [](status # "idle" =>
             Cardinality(Covered) + lines_length(missed_lines) = lines_length(scope))
    /\ [](coverage.is = "dict" =>
             coverage.covered_lines_count + coverage.missed_lines_count
                 = coverage.lines_count)

\* C5's case: two runs were recorded and one line of the scope is missed.
C5_Witness ==
    /\ status = "running"
    /\ Cardinality(Recorded) = 2
    /\ Cardinality(Covered) = 1
    /\ lines_length(missed_lines) = 1

\* C6: an exception the target raises is stored as the run's result, with
\* the run's locations, and the loop goes on, exactly when it is an instance
\* of a class of suppress_exceptions; any other leaves guess(), and the
\* target is not invoked again.
C6_Suppression ==
    /\ []((status # "idle" /\ last_raise # "none") =>
            IF InstanceOf(last_raise) \cap suppress_exceptions # {}
            THEN /\ status # "raised"
                 /\ calls[Len(calls)].result = last_raise
                 /\ call_count = Len(calls)
                 /\ runs_with_results[call_count - 1].result = last_raise
                 /\ calls[Len(calls)].executed \subseteq Locations(RunLines(call_count - 1))
            ELSE /\ status = "raised"
                 /\ calls[Len(calls)].result = "propagated"
                 /\ call_count = Len(calls) - 1)
    /\ [][status = "raised" => Len(calls') <= Len(calls)]_vars

\* C6's case: a ZeroDivisionError was caught for ArithmeticError and the loop
\* is at its next test.
C6_Witness ==
    /\ status = "running"
    /\ last_raise = "ZeroDivisionError"
    /\ suppress_exceptions = {"ArithmeticError"}

\* C7: when an exception leaves guess() during run k, the stored runs are the
\* k runs made before it, with their arguments and results, and the coverage
\* query succeeds on them.
C7_PartialResults ==
    status = "raised" =>
        /\ DOMAIN runs_with_results = 0..(call_count - 1)
        /\ \A i \in DOMAIN runs_with_results :
               /\ i + 1 \in Recorded
               /\ runs_with_results[i].result = calls[i + 1].result
               /\ run_arguments[i + 1] = calls[i + 1].args
        /\ exception_runs \cup return_runs = 0..(call_count - 1)
        /\ coverage.is # "IndexError"

\* C8: the tracer is entered once before the first target call and left once
\* on every way out of guess(); while guess() runs the tracer's hook is the
\* one installed, afterwards the hook installed before guess() is.
C8_TracerScoped ==
    /\ status = "running" => (enters = 1 /\ exits = 0 /\ trace_hook = "tracer")
    /\ status \in {"returned", "raised"} =>
           (enters = 1 /\ exits = 1 /\ trace_hook = hook_before)
    /\ status = "idle" => trace_hook = hook_before

\* C8's case: an exception left guess() and the debugger's hook is back.
C8_Witness ==
    /\ status = "raised"
    /\ last_raise # "none"
    /\ hook_before = "debugger"
    /\ trace_hook = "debugger"

\* C9: after guess() the stored runs are those of this invocation: one per
\* recorded run, with its arguments and result, and no run of an earlier
\* invocation.
C9_HistoryCleared ==
    status \in {"returned", "raised"} =>
        /\ DOMAIN runs_with_results = 0..(call_count - 1)
        /\ \A i \in DOMAIN runs_with_results :
               /\ i + 1 \in Recorded
               /\ runs_with_results[i].result = calls[i + 1].result
               /\ run_arguments[i + 1] = calls[i + 1].args

\* C10: the k-th target invocation of a guess() has run id k, and the
\* location set stored for run k holds exactly the locations that invocation
\* executed.
C10_Attribution ==
    status # "idle" =>
        \A i \in 1..Len(calls) :
            /\ calls[i].run_id = i - 1
            /\ i \in Recorded => Locations(RunLines(i - 1)) = calls[i].executed

\* C11 as stated: the union of the location sets stored for the selected
\* runs equals the scope minus the remaining locations.
C11_Soundness ==
    VisitedBy(Cases) = Locations(scope) \ Remaining

\* C11 amended: the locations of the scope in the location sets stored for the
\* selected runs are the scope minus the remaining locations; the selected
\* runs are stored runs and the remaining locations are locations of the scope.
C11_SoundnessInScope ==
    LET best == get_best_cover
    IN  /\ VisitedBy(best.cases) \cap Locations(scope)
               = Locations(scope) \ Locations(best.remaining)
        /\ best.cases \subseteq StoredRuns
        /\ Locations(best.remaining) \subseteq Locations(scope)

\* C11's case: two runs are selected, one of them went through the helper,
\* and a line of the scope is still missed.
C11_Witness ==
    /\ Cardinality(Cases) = 2
    /\ HelperLine \in VisitedBy(Cases)
    /\ Remaining # {}

\* C12: no remaining location was visited by a stored run, the selected runs
\* visit every location of the scope that the stored runs together visit, and
\* taking any unselected run into the selection removes nothing from remaining.
C12_NothingLeftToGain ==
    LET best == get_best_cover
        left == Locations(best.remaining)
    IN  /\ left \cap VisitedBy(StoredRuns) = {}
        /\ Locations(scope) \cap VisitedBy(StoredRuns) \subseteq VisitedBy(best.cases)
        /\ \A r \in StoredRuns \ best.cases : left \ Locations(RunLines(r)) = left

\* C12's case: of three stored runs two are selected, the third visited a
\* line the first selection step left, and a line of the scope stays missed.
C12_Witness ==
    /\ Cardinality(StoredRuns) = 3
    /\ Cardinality(Cases) = 2
    /\ Remaining # {}
    /\ \E r \in StoredRuns \ Cases, c \in Cases :
           (Locations(RunLines(r)) \cap Locations(scope)) \ Locations(RunLines(c)) # {}

\* C13: the selection is the one that takes, at every step, the earliest
\* recorded of the runs whose intersection with the remaining scope is
\* largest; the earliest of the runs that visit the most of the scope is
\* always selected.
C13_TieBreak ==
    /\ Cases = EarliestLargest({}, Locations(scope))
    /\ \A r \in StoredRuns :
           (/\ Gain(r, Locations(scope)) > 0
            /\ \A q \in StoredRuns :
                  \/ Gain(q, Locations(scope)) < Gain(r, Locations(scope))
                  \/ Gain(q, Locations(scope)) = Gain(r, Locations(scope)) /\ r <= q)
           => r \in Cases

\* C13's case: runs 0 and 1 visited different lines, as many as any run, so
\* the first step is a tie; run 0 is selected and run 1 after it.
C13_Witness ==
    /\ StoredRuns = {0, 1, 2}
    /\ RunLines(0) # RunLines(1)
    /\ Gain(0, Locations(scope)) = Gain(1, Locations(scope))
    /\ Gain(2, Locations(scope)) <= Gain(0, Locations(scope))
    /\ Cases = {0, 1}

\* C14: no set of stored runs of fewer members than the returned case set
\* visits every location of the scope that the stored runs together visit.
C14_Smallest ==
    \A runs \in MaximumCovers : Cardinality(runs) >= Cardinality(Cases)

\* The exception runs that produce the same key as run r in each grouping of
\* exceptions, and the return runs that do in each grouping of
\* return_values.
SameType(r) ==
    {q \in exception_runs : runs_with_results[q].result = runs_with_results[r].result}

SameLocation(r) ==
    {q \in exception_runs :
        get_exception_location(tracebacks[q]) = get_exception_location(tracebacks[r])}

SameReturnType(r) ==
    {q \in return_runs :
        PyType(runs_with_results[q].result) = PyType(runs_with_results[r].result)}

SameValue(r) ==
    {q \in return_runs : PyEquals(runs_with_results[q].result, runs_with_results[r].result)}

\* C15: once guess() has returned with stored runs, exceptions and
\* return_values are dicts in which every key a run of that kind produced is
\* present and maps to the example (arguments and outcome) of the earliest
\* run, in run-id order, that produced it.
C15_EarliestExample ==
    (status = "returned" /\ StoredRuns # {}) =>
        LET raised == exceptions
            returned == return_values
        IN  /\ raised.is = "dict"
            /\ returned.is = "dict"
            /\ \A r \in exception_runs :
                   LET type == runs_with_results[r].result
                       location == get_exception_location(tracebacks[r])
                   IN  /\ type \in DOMAIN raised.by_type
                       /\ raised.by_type[type] = Example(Earliest(SameType(r)))
                       /\ location \in DOMAIN raised.by_location
                       /\ raised.by_location[location] = Example(Earliest(SameLocation(r)))
                       /\ <<location, type>> \in DOMAIN raised.by_location_and_type
                       /\ raised.by_location_and_type[<<location, type>>] =
                              Example(Earliest(SameType(r) \cap SameLocation(r)))
            /\ \A r \in return_runs :
                   LET value == runs_with_results[r].result
                       type == PyType(value)
                   IN  /\ type \in DOMAIN returned.by_type
                       /\ returned.by_type[type] = Example(Earliest(SameReturnType(r)))
                       /\ \E key \in DOMAIN returned.by_value :
                              /\ PyEquals(key, value)
                              /\ returned.by_value[key] = Example(Earliest(SameValue(r)))
                       /\ <<type, value>> \in DOMAIN returned.by_type_and_value
                       /\ returned.by_type_and_value[<<type, value>>] =
                              Example(Earliest(SameReturnType(r) \cap SameValue(r)))

\* The frame's (file, line) lies inside the traced scope: the line is one of
\* the lines the scope holds for the file, whatever the granularity.
FrameInScope(frame) ==
    /\ frame.co_filename \in DOMAIN scope
    /\ \E item \in scope[frame.co_filename] :
           IF trace_opcodes THEN item[1] = frame.f_lineno ELSE item = frame.f_lineno

\* C16: the location of a stored exception is the (file, line) of the
\* innermost frame of its traceback that lies inside the traced scope, and
\* None only when no frame does.
C16_InnermostInScope ==
    \A r \in exception_runs :
        tracebacks[r] # <<>> =>
            LET traceback == tracebacks[r]
                inside == {i \in DOMAIN traceback : FrameInScope(traceback[i])}
                location == get_exception_location(traceback)
            IN  /\ location = NoLocation <=> inside = {}
                /\ \A i \in inside :
                       (\A j \in inside : j <= i) =>
                           location = <<traceback[i].co_filename, traceback[i].f_lineno>>

\* C17: once guess() has returned, every stored run is counted in exactly
\* one of the two summaries: a run whose outcome is an exception (raised and
\* suppressed, or returned by the target) has its type among the types of
\* exceptions and none of the keys of return_values, every other run has its
\* type among the types of return_values and none of the keys of exceptions.
C17_ExactlyOneSummary ==
    status = "returned" =>
        \A r \in StoredRuns :
            LET result == runs_with_results[r].result
                raised == exceptions
                returned == return_values
            IN  IF IsException(result)
                THEN /\ raised.is = "dict"
                     /\ result \in DOMAIN raised.by_type
                     /\ returned.is = "dict" =>
                            \A key \in DOMAIN returned.by_value : key # result
                ELSE /\ returned.is = "dict"
                     /\ PyType(result) \in DOMAIN returned.by_type
                     /\ raised.is = "dict" =>
                            \A key \in DOMAIN raised.by_type : key # result

\* C18: in every iteration the target is called: with one generated value
\* per positional generator, in their order, followed by the elements drawn
\* for the variable-positional slot (n + m positional arguments), and with
\* one keyword argument per keyword generator, by name, plus the drawn
\* variable-keyword entries.
C18_CallArguments ==
    invocation.is # "none" =>
        LET n == Len(parameters_generators.positional)
            m == Len(invocation.drawn.var_positional)
        IN  /\ invocation.is = "called"
            /\ Len(invocation.args) = n + m
            /\ \A i \in 1..n :
                   invocation.args[i].made_by = parameters_generators.positional[i]
            /\ \A i \in 1..m : invocation.args[n + i] = invocation.drawn.var_positional[i]
            /\ DOMAIN invocation.kwargs =
                   parameters_generators.keyword \cup invocation.drawn.var_keyword
            /\ \A k \in parameters_generators.keyword : invocation.kwargs[k].made_by = k

\* The places of the shuffle whose kind offers a RequiresSpecification for
\* the annotation and has every sub-specification resolved within the limit.
Resolvable ==
    {i \in DOMAIN generators_ :
        \E result \in Round(generators_[i], annotation, depth_limit) :
            result.is = "generator"}

\* C19: a call of new_get_generator that has ended went through the kinds
\* in shuffled order, tried a kind only after every earlier one had ended
\* with nothing, instantiated no kind with a sub-specification left
\* unresolved, and, when some kind offers requirements that all resolve,
\* returned the generator built from the first such kind of the shuffle.
C19_FirstResolvable ==
    resolving \in {"returned", "raised"} =>
        /\ \A i \in DOMAIN tried :
               /\ tried[i].possible_match = generators_[i]
               /\ i < Len(tried) => tried[i].result.is = "None"
               /\ tried[i].result.is = "generator" =>
                      LET requirements == handle_specification(generators_[i], annotation)
                      IN  /\ requirements.is = "RequiresSpecification"
                          /\ Len(tried[i].result.sub_generators) = Len(requirements.to_resolve)
                          /\ \A j \in DOMAIN requirements.to_resolve :
                                 tried[i].result.sub_generators[j] \in
                                     {matching \in new_get_generator(requirements.to_resolve[j],
                                                                     depth_limit - 1) :
                                         matching.is = "generator"}
        /\ Resolvable # {} =>
               LET first == CHOOSE i \in Resolvable : \A j \in Resolvable : i <= j
               IN  /\ resolving = "returned"
                   /\ found.is = "generator"
                   /\ found.kind = generators_[first]
                   /\ found = tried[Len(tried)].result

\* C20: a call of new_get_generator never returns None: when no kind can
\* be resolved for the annotation it ends by raising.
C20_ExhaustionRaises ==
    resolving = "returned" => found.is = "generator"

\* C30: get_best_cover ends on every record of runs, and in its loop every
\* picked run visits a scope location that no run picked before it visits,
\* the working copy of the scope shrinks strictly at every round, no run is
\* picked twice, and the picks are at most as many as the stored runs and
\* as the scope locations the stored runs visit.
C30_StrictProgress ==
    LET steps == get_best_cover.steps
        before(i) == IF i = 1 THEN scope ELSE steps[i - 1].scope
        earlier(i) == {steps[j].most_cover : j \in 1..(i - 1)}
    IN  /\ \A i \in DOMAIN steps :
               /\ steps[i].most_cover \in StoredRuns \ earlier(i)
               /\ (Locations(RunLines(steps[i].most_cover)) \cap Locations(scope))
                      \ VisitedBy(earlier(i)) # {}
               /\ Locations(steps[i].scope) \subseteq Locations(before(i))
               /\ lines_length(steps[i].scope) < lines_length(before(i))
        /\ Len(steps) = Cardinality(get_best_cover.cases)
        /\ Len(steps) <= Cardinality(StoredRuns)
        /\ Len(steps) <= Cardinality(VisitedBy(StoredRuns) \cap Locations(scope))

\* guess() has returned, the minimizer picks two runs and stops with scope
\* locations left that no stored run visits.
C30_Witness ==
    /\ status = "returned"
    /\ Len(get_best_cover.steps) = 2
    /\ get_best_cover.remaining # EmptyLines
    /\ Cardinality(StoredRuns) = 3

\* C28: attempts_number is the number of target invocations the most recent
\* guess() started: 0 before any guess() and while or after a guess() that
\* made none, n after n invocations.
C28_AttemptsNumber ==
    /\ (guess_no = 0 /\ status = "idle") => attempts_number = 0
    /\ status \in {"running", "returned", "raised"} => attempts_number = Len(calls)

\* The nesting depth of a generator tree: 1 for a generator without
\* sub-generators.
RECURSIVE Depth(_)
Depth(generator) ==
    IF generator.sub_generators = <<>> THEN 1
    ELSE 1 + CHOOSE deepest \in {Depth(generator.sub_generators[i]) :
                                    i \in DOMAIN generator.sub_generators} :
                 \A i \in DOMAIN generator.sub_generators :
                     Depth(generator.sub_generators[i]) <= deepest

\* The generator and its sub-generators, at any depth.
RECURSIVE Nodes(_)
Nodes(generator) ==
    {generator} \cup UNION {Nodes(generator.sub_generators[i]) :
                                i \in DOMAIN generator.sub_generators}

\* C29: with a limit of at least 1, the generator a round of
\* new_get_generator builds, and so the one the call returns, is nested at
\* most `limit` deep; with limit 1 a candidate that has something to resolve
\* is passed over and the generator built has no sub-generators; the limit
\* the sub-generators of a built generator were resolved with is at least 1.
C29_DepthWithinLimit ==
    resolving # "idle" =>
        /\ depth_limit >= 1
        /\ found.is = "generator" => Depth(found) <= depth_limit
        /\ \A i \in DOMAIN tried :
               LET requirements == handle_specification(tried[i].possible_match, annotation)
                   result == tried[i].result
               IN  /\ (depth_limit = 1 /\ requirements.to_resolve # <<>>)
                          => result = Nothing
                   /\ result.is = "generator" =>
                          /\ Depth(result) <= depth_limit
                          /\ result.sub_generators # <<>> => depth_limit - 1 >= 1

\* A call with limit 3 returned a generator nested 3 deep, after a call with
\* limit 1 would have passed its kind over.
C29_Witness ==
    /\ resolving = "returned"
    /\ depth_limit = MaxLimit
    /\ found.is = "generator"
    /\ Depth(found) = MaxLimit
    /\ handle_specification(found.kind, annotation).to_resolve # <<>>

\* The specifications the calls of new_get_generator(specification, limit)
\* are made with, the call itself and the recursive ones, whichever
\* candidates the rounds get to.
RECURSIVE Specifications(_, _)
Specifications(specification, limit) ==
    {specification} \cup
        UNION {LET requirements == handle_specification(kind, specification)
               IN  IF requirements.to_resolve = <<>> \/ limit = 1 THEN {}
                   ELSE UNION {Specifications(TypeToResolve(requirements.to_resolve[i]),
                                              limit - 1) :
                                   i \in DOMAIN requirements.to_resolve} :
                   kind \in inheritances}

\* C21: in the tree a call of new_get_generator returns no union generator
\* has a union or an optional generator right below it and no optional
\* generator an optional or a None generator; of the specifications the
\* call resolves, the union candidate requires nothing of one that
\* disqualifies "union" and disqualifies "union" (and "optional") in all it
\* requests, the optional candidate requires nothing of one that
\* disqualifies "optional" and disqualifies "optional" (and "none") in what
\* it requests.
C21_NoDirectNesting ==
    resolving = "returned" =>
        /\ found.is = "generator" =>
               \A node \in Nodes(found) : \A i \in DOMAIN node.sub_generators :
                   LET below == node.sub_generators[i].kind
                   IN  /\ node.kind = "UnionGenerator"
                              => below \notin {"UnionGenerator", "OptionalGenerator"}
                       /\ node.kind = "OptionalGenerator"
                              => below \notin {"OptionalGenerator", "NoneGenerator"}
        /\ \A specification \in Specifications(annotation, depth_limit) :
               LET union == handle_specification("UnionGenerator", specification)
                   optional == handle_specification("OptionalGenerator", specification)
               IN  /\ "union" \in specification.disqualifiers => union = NoRequirements
                   /\ "optional" \in specification.disqualifiers => optional = NoRequirements
                   /\ \A i \in DOMAIN union.to_resolve :
                          {"union", "optional"} \subseteq
                              TypeToResolve(union.to_resolve[i]).disqualifiers
                   /\ \A i \in DOMAIN optional.to_resolve :
                          {"optional", "none"} \subseteq
                              TypeToResolve(optional.to_resolve[i]).disqualifiers

\* typing.Optional resolved to an optional generator of a union generator:
\* the union candidate was tried below the optional one, where the
\* specification disqualifies "optional" and "none", and its members were
\* resolved with "union" disqualified besides.
C21_Witness ==
    /\ resolving = "returned"
    /\ annotation = Type("Optional", <<>>)
    /\ found.is = "generator"
    /\ found.kind = "OptionalGenerator"
    /\ found.sub_generators[1].kind = "UnionGenerator"
    /\ found.sub_generators[1].sub_generators[1].kind = "IntGenerator"

\* A tree whose every generator, down through the members of tuples, unions
\* and optionals, is of a kind that supports "hashable" and is immutable.
RECURSIVE HashableTree(_)
HashableTree(generator) ==
    /\ "hashable" \in supported_qualifiers(generator.kind)
    /\ immutable(generator.kind)
    /\ generator.kind \in {"TupleGenerator", "UnionGenerator", "OptionalGenerator"} =>
           \A i \in DOMAIN generator.sub_generators :
               HashableTree(generator.sub_generators[i])

C23_ImmutableUnderHashable ==
    built_generator.is = "generator" =>
        /\ any_call.require_hashable =>
               \A node \in Nodes(built_generator) : immutable(node.kind)
        /\ \A node \in Nodes(built_generator) :
               node.kind \in {"SetGenerator", "FrozenSetGenerator", "DictGenerator"} =>
                   \A below \in Nodes(node.sub_generators[1]) : immutable(below.kind)

\* Without a hashable required, a dict generator was built whose key is a
\* tuple generator and whose value is a list generator.
C23_Witness ==
    /\ built_generator.is = "generator"
    /\ ~any_call.require_hashable
    /\ built_generator.kind = "DictGenerator"
    /\ built_generator.sub_generators[1].kind = "TupleGenerator"
    /\ built_generator.sub_generators[2].kind = "ListGenerator"

\* C24: what a generator built with require_hashable produces is a value
\* hash() takes, and calling a set, frozenset or dict generator that
\* generate_generator built does not raise on an element or key.
C24_ValuesHashable ==
    produced.is # "none" =>
        /\ any_call.require_hashable => (produced.is = "value" /\ produced.hashable)
        /\ built_generator.kind \in {"SetGenerator", "FrozenSetGenerator", "DictGenerator"}
               => produced.is = "value"

\* C25: every kind in a tree generate_generator built was eligible where it
\* was chosen: it requires only generators, is not the any kind, is
\* immutable if a hashable was required there, and has no sub-generators if
\* the max_depth there was 1 or less; each recursive call has a max_depth
\* one less, the tree is at most max(max_depth, 1) deep, and a call whose
\* filters leave nothing raises.
C25_EligibleChoices ==
    /\ built_generator.is = "generator" =>
           /\ \A node \in Nodes(built_generator) :
                  /\ requires_only_generators(node.kind)
                  /\ node.kind # "AnyGenerator"
                  /\ node.require_hashable => immutable(node.kind)
                  /\ node.max_depth <= 1 =>
                         (sub_generators_number(node.kind) = 0 /\ node.sub_generators = <<>>)
                  /\ \A i \in DOMAIN node.sub_generators :
                         node.sub_generators[i].max_depth = node.max_depth - 1
           /\ Depth(built_generator)
                  <= (IF any_call.max_depth > 1 THEN any_call.max_depth ELSE 1)
    /\ (built_generator.is # "none"
            /\ generator_options(any_call.sub_generators, any_call.max_depth,
                                 any_call.require_hashable) = {})
           => built_generator.is = "raised"

\* A hashable required and the deepest max_depth: a tree that deep was
\* built.
C25_Witness ==
    /\ built_generator.is = "generator"
    /\ any_call.require_hashable
    /\ any_call.max_depth = MaxDepth
    /\ Depth(built_generator) = MaxDepth

\* C27: what an IntGenerator or a FloatGenerator produces, with or without
\* a step, is a number from start up to but not stop, and the length of
\* what a StringGenerator or a BytesGenerator produces is from min_length
\* to max_length.
C27_WithinBounds ==
    produced.is # "none" =>
        IF built_generator.kind \in {"IntGenerator", "FloatGenerator"}
        THEN /\ produced.is = "value"
             /\ produced.special = "none"
             /\ built_generator.start <= produced.number
             /\ produced.number < built_generator.stop
        ELSE /\ produced.is = "value"
             /\ built_generator.min_length <= produced.length
             /\ produced.length <= built_generator.max_length

\* C26: what a list, set, frozenset, ellipsis tuple or dict generator (and
\* the iterable generator they are made of) produces has from min_length to
\* max_length elements or entries, whatever the sub-generators produce.
C26_LengthWithinRange ==
    produced.is = "value" =>
        /\ built_generator.min_length <= produced.length
        /\ produced.length <= built_generator.max_length
====
